---- MODULE Spec2Model ----
(***************************************************************************)
(* Model of the node checker (corpus-core/node_check): the light-client    *)
(* update verification engine of beacon.mjs (hashing, binary-tree          *)
(* reduction, SSZ decoding, Merkle branch walk), the two verification      *)
(* checks built on it, the check-orchestration loops of the beacon,        *)
(* execution and colibri checkers, the CLI result callback, and the        *)
(* callers of the checkers: detectNodeType with its three probes,          *)
(* check_sse_events, the handler of POST /check and the auto-detecting     *)
(* CLI.                                                                    *)
(*                                                                         *)
(* JavaScript values are records [t, v, e]: t is the runtime type ("buf" a *)
(* Buffer/Uint8Array, "str" a string, "arr" an array, "undef" undefined,   *)
(* "throw" a thrown exception with message e, "ok" a returned text e), v   *)
(* the sequence of bytes, characters or elements.                          *)
(* A byte is a record: [b |-> 0..255] a plain byte,                        *)
(* [sha |-> input] the first byte of the SHA-256 digest of input and       *)
(* [fill |-> k] its k-th following byte, so that the digest is an          *)
(* injective function of its input and still a 32-byte string that can be  *)
(* sliced, embedded in a container and compared byte for byte.             *)
(***************************************************************************)
EXTENDS Integers, Sequences, FiniteSets, TLC

(***************************************************************************)
(* Sizes.  The byte layout is the program's; only the committee is scaled: *)
(* it holds 2^CommitteeDepth keys (the program's 512 is 2^9).              *)
(***************************************************************************)
CommitteeDepth == 1

\* At most this many of the checks that only ask the node fail in a run.
MaxNetFailures == 2

RECURSIVE Pow2(_)
Pow2(n) == IF n = 0 THEN 1 ELSE 2 * Pow2(n - 1)

COMMITTEE_SIZE == Pow2(CommitteeDepth)

\* The calls of the hashing functions made so far, each with its arguments
\* and what it returned or threw
VARIABLES calls

pureVars == <<calls>>

KEY_LEN == 48

HASH_LEN == 32

KEY_PAD == 16

BRANCH_LEN == 6

ELECTRA_NEXT_SYNC_COMMITTEE_GINDEX == 87

SSZ_START == 4

STATE_ROOT_START == 48

FRAME_LEN == 12

(***************************************************************************)
(* JavaScript values                                                       *)
(***************************************************************************)
Buf(s) == [t |-> "buf", v |-> s, e |-> <<>>]

Str(s) == [t |-> "str", v |-> s, e |-> <<>>]

Undef == [t |-> "undef", v |-> <<>>, e |-> <<>>]

\* A thrown Error; e is its message, a tuple of the parts it is built from.
Throw(msg) == [t |-> "throw", v |-> <<>>, e |-> <<msg>>]

\* The value a check returns on success; e is the returned text.
Returned(text) == [t |-> "ok", v |-> <<>>, e |-> <<text>>]

IsThrow(x) == x.t = "throw"

\* The element of a one-element set.  The({e(x) : x \in {v}}) is e(v) with
\* v computed once, however often e uses it: the way a JavaScript const is.
The(S) == CHOOSE y \in S : TRUE

\* The first thrown value of a sequence of values (the exception that
\* escapes when the values are computed left to right).
FirstThrow(xs) == xs[CHOOSE i \in 1..Len(xs) : IsThrow(xs[i]) /\ \A j \in 1..(i - 1) : ~IsThrow(xs[j])]

AnyThrow(xs) == \E i \in 1..Len(xs) : IsThrow(xs[i])

Byte(n) == [b |-> n]

Zeros(n) == [i \in 1..n |-> Byte(0)]

\* Uint8Array.prototype.slice / Buffer.prototype.slice on non-negative
\* arguments: both ends are clamped to the length, an empty range is empty.
Min(a, b) == IF a < b THEN a ELSE b

Slice(s, from, to) ==
    LET f == Min(from, Len(s))
        u == Min(to, Len(s))
    IN IF f >= u THEN <<>> ELSE SubSeq(s, f + 1, u)

RECURSIVE Concat(_)
Concat(ss) == IF ss = <<>> THEN <<>> ELSE Head(ss) \o Concat(Tail(ss))

(***************************************************************************)
(* Hex strings.  The characters of a string are records: [c |-> "0"],      *)
(* [c |-> "x"], [c |-> "?"] (a character that is no hex digit), and for a  *)
(* byte y its two hex digits [hi |-> y] and [lo |-> y].                    *)
(***************************************************************************)
Ch(c) == [c |-> c]

HexDigits(bytes) ==
    [k \in 1..(2 * Len(bytes)) |->
        IF k % 2 = 1 THEN [hi |-> bytes[(k + 1) \div 2]] ELSE [lo |-> bytes[k \div 2]]]

\* "0x" followed by two digits per byte: the form the beacon API delivers.
ToHex(bytes) == Str(<<Ch("0"), Ch("x")>> \o HexDigits(bytes))

StartsWith0x(chars) == Len(chars) >= 2 /\ chars[1] = Ch("0") /\ chars[2] = Ch("x")

\* Whether characters 2k-1 and 2k are the two hex digits of one byte
ValidPair(chars, k) ==
    /\ "hi" \in DOMAIN chars[2 * k - 1]
    /\ "lo" \in DOMAIN chars[2 * k]
    /\ chars[2 * k - 1].hi = chars[2 * k].lo

\* Buffer.from(s, "hex"): one byte per pair of hex digits, stopping at the
\* first pair that is no valid pair (and dropping an odd last character).
BufferFromHex(chars) ==
    LET pairs == Len(chars) \div 2
        bad == {k \in 1..pairs : ~ValidPair(chars, k)}
        n == IF bad = {} THEN pairs ELSE (CHOOSE k \in bad : \A j \in bad : k <= j) - 1
    IN [k \in 1..n |-> chars[2 * k - 1].hi]

\* A conversion that keeps the 0x in front of the digits
fromHex_raw(hex) ==
    IF hex.t = "buf" THEN hex
    ELSE IF hex.t = "undef" THEN Throw("TypeError: Cannot read properties of undefined")
    ELSE IF hex.t = "throw" THEN hex
    ELSE Buf(BufferFromHex(hex.v))

fromHex(hex) ==
    IF hex.t = "buf" THEN hex
    ELSE IF hex.t = "undef" THEN Throw("TypeError: Cannot read properties of undefined")
    ELSE IF hex.t = "throw" THEN hex
    ELSE Buf(BufferFromHex(IF StartsWith0x(hex.v) THEN SubSeq(hex.v, 3, Len(hex.v)) ELSE hex.v))

(***************************************************************************)
(* Hashing primitives                                                      *)
(***************************************************************************)
\* A digest that depends on the calls made before
Digest_salted(input) ==
    <<[sha |-> input, salt |-> Len(calls)]>> \o [k \in 1..(HASH_LEN - 1) |-> [fill |-> k]]

Digest(input) == <<[sha |-> input]>> \o [k \in 1..(HASH_LEN - 1) |-> [fill |-> k]]

hash(values) ==
    The({ IF AnyThrow(bs) THEN FirstThrow(bs)
          ELSE Buf(Digest(Concat([i \in 1..Len(bs) |-> bs[i].v])))
          : bs \in {[i \in 1..Len(values) |-> fromHex(values[i])]} })

\* A key hashed without its padding
hash_key_bare(key) == hash(<<key>>)

hash_key(key) == hash(<<key, Buf(Zeros(KEY_PAD))>>)

\* roots[i] of a JavaScript array: undefined past the end.
At(arr, i) == IF i + 1 <= Len(arr) THEN arr[i + 1] ELSE Undef

\* roots[i + 1] || Buffer.alloc(32)
OrZero(x) == IF x.t = "undef" THEN Buf(Zeros(HASH_LEN)) ELSE x

Arr(s) == [t |-> "arr", v |-> s, e |-> <<>>]

\* The value of an async/sync block that computes xs in order and then
\* returns the array of them: the first exception, or the array.
ArrOrThrow(xs) == The({ IF AnyThrow(x) THEN FirstThrow(x) ELSE Arr(x) : x \in {xs} })

hash_roots(roots) ==
    LET n == (Len(roots) + 1) \div 2
    IN ArrOrThrow([k \in 1..n |->
           hash(<<At(roots, 2 * (k - 1)), OrZero(At(roots, 2 * (k - 1) + 1))>>)])

\* The minimal variant sizes the result with new Array(roots.length / 2),
\* which throws a RangeError when the length is odd.
hash_roots_min(roots) ==
    IF Len(roots) % 2 # 0 THEN Throw("RangeError: Invalid array length")
    ELSE ArrOrThrow([k \in 1..(Len(roots) \div 2) |->
             hash(<<At(roots, 2 * (k - 1)), OrZero(At(roots, 2 * (k - 1) + 1))>>)])

\* A comparison that looks at the lengths only
compare_buffers_len(a, b) == IF Len(a.v) = Len(b.v) THEN 0 ELSE 1

\* The order of two bytes.  The order of two digest bytes is not determined
\* by the model; only plain bytes are ordered.
ByteLess(x, y) ==
    /\ DOMAIN x = {"b"}
    /\ DOMAIN y = {"b"}
    /\ x.b < y.b

\* Buffer.compare of Node: the sign of the first difference, a buffer that
\* is the beginning of the other one being the smaller
BufferCompare(a, b) ==
    LET differ == {k \in 1..Min(Len(a), Len(b)) : a[k] # b[k]}
    IN IF differ # {}
       THEN (IF ByteLess(a[CHOOSE k \in differ : \A l \in differ : k <= l],
                         b[CHOOSE k \in differ : \A l \in differ : k <= l]) THEN -1 ELSE 1)
       ELSE IF Len(a) < Len(b) THEN -1
       ELSE IF Len(a) > Len(b) THEN 1
       ELSE 0

\* A loop that runs over a only
compare_buffers_prefix(a, b) ==
    IF \E k \in 1..Len(a.v) : k > Len(b.v) \/ a.v[k] # b.v[k] THEN 1 ELSE 0

\* The branch of compare_buffers the browser takes
compare_buffers_browser(a, b) ==
    IF Len(a.v) # Len(b.v) THEN 1
    ELSE IF \E k \in 1..Len(a.v) : a.v[k] # b.v[k] THEN 1
    ELSE 0

\* compare_buffers under Node, which is where the checks of the CLI and the
\* server run
compare_buffers(a, b) == BufferCompare(a.v, b.v)

\* compare_buffers in either environment, of any two values: what it returns
\* (a number) or throws
compare_buffers_in(isBrowser, a, b) ==
    IF a.t # "buf" \/ b.t # "buf" THEN Throw("TypeError")
    ELSE [t |-> "num", v |-> <<IF isBrowser THEN compare_buffers_browser(a, b)
                                ELSE compare_buffers(a, b)>>, e |-> <<>>]

\* Slices that start one byte late
split_bytes_late(bytes, len) ==
    [i \in 1..((Len(bytes) + len - 1) \div len) |-> Buf(Slice(bytes, (i - 1) * len + 1, i * len + 1))]

\* split_bytes(bytes, len): ceil(length / len) consecutive slices.
split_bytes(bytes, len) ==
    [i \in 1..((Len(bytes) + len - 1) \div len) |-> Buf(Slice(bytes, (i - 1) * len, i * len))]

(***************************************************************************)
(* Sync-committee root and Merkle branch walk                              *)
(***************************************************************************)
RECURSIVE ReduceRoots(_, _)
\* while (roots.length > 1) roots = hash_roots(roots)
ReduceRoots(roots, min) ==
    IF Len(roots) <= 1 THEN Arr(roots)
    ELSE The({ IF IsThrow(r) THEN r ELSE ReduceRoots(r.v, min)
               : r \in {IF min THEN hash_roots_min(roots) ELSE hash_roots(roots)} })

RECURSIVE ReduceLengths(_, _)
\* roots.length each time the while loop tests it, up to the test that ends
\* the loop or the round in which hash_roots threw
ReduceLengths(roots, min) ==
    IF Len(roots) <= 1 THEN <<Len(roots)>>
    ELSE The({ IF IsThrow(r) THEN <<Len(roots)>> ELSE <<Len(roots)>> \o ReduceLengths(r.v, min)
               : r \in {IF min THEN hash_roots_min(roots) ELSE hash_roots(roots)} })

calculate_next_sync_committee_root(next_sync_committee, min) ==
    The({ The({ IF IsThrow(roots) THEN roots
                ELSE The({ hash(<<At(roots.v, 0), aggregate>>)
                           : aggregate \in {hash_key(next_sync_committee.aggregate_pubkey)} })
                : roots \in {IF IsThrow(leaves) THEN leaves ELSE ReduceRoots(leaves.v, min)} })
          : leaves \in {ArrOrThrow([i \in 1..Len(next_sync_committee.pubkeys) |->
                                      hash_key(next_sync_committee.pubkeys[i])])} })

RECURSIVE BranchWalk_deep(_, _, _, _, _)
\* A walk that takes one more step, at index 1
BranchWalk_deep(gindex, branch, root, i, reads) ==
    IF gindex < 1 THEN [res |-> root, reads |-> reads]
    ELSE The({ IF IsThrow(nxt) THEN [res |-> nxt, reads |-> Append(reads, i)]
               ELSE BranchWalk_deep(gindex \div 2, branch, nxt, i + 1, Append(reads, i))
               : nxt \in {IF gindex % 2 = 1 THEN hash(<<At(branch, i), root>>)
                                            ELSE hash(<<root, At(branch, i)>>)} })

RECURSIVE BranchWalk_swapped(_, _, _, _, _)
\* A walk that puts the sibling on the wrong side
BranchWalk_swapped(gindex, branch, root, i, reads) ==
    IF gindex <= 1 THEN [res |-> root, reads |-> reads]
    ELSE The({ IF IsThrow(nxt) THEN [res |-> nxt, reads |-> Append(reads, i)]
               ELSE BranchWalk_swapped(gindex \div 2, branch, nxt, i + 1, Append(reads, i))
               : nxt \in {IF gindex % 2 = 0 THEN hash(<<At(branch, i), root>>)
                                            ELSE hash(<<root, At(branch, i)>>)} })

RECURSIVE BranchWalk(_, _, _, _, _)
\* The loop of merkle_root_from_branch from the state (gindex, i, root), with
\* the branch positions read so far; res is the returned root or the
\* exception, reads the positions branch[i] that were read, in order.
BranchWalk(gindex, branch, root, i, reads) ==
    IF gindex <= 1 THEN [res |-> root, reads |-> reads]
    ELSE The({ IF IsThrow(nxt) THEN [res |-> nxt, reads |-> Append(reads, i)]
               ELSE BranchWalk(gindex \div 2, branch, nxt, i + 1, Append(reads, i))
               : nxt \in {IF gindex % 2 = 1 THEN hash(<<At(branch, i), root>>)
                                            ELSE hash(<<root, At(branch, i)>>)} })

\* A walk that stops one level below the root
merkle_root_from_branch_short(gindex, branch, leaf) ==
    BranchWalk(gindex \div 2, branch, leaf, 0, <<>>).res

merkle_root_from_branch(gindex, branch, leaf) == BranchWalk(gindex, branch, leaf, 0, <<>>).res

\* The branch positions merkle_root_from_branch reads for these arguments.
branch_reads(gindex, branch, leaf) == BranchWalk(gindex, branch, leaf, 0, <<>>).reads

(***************************************************************************)
(* SSZ decoding (binary path)                                              *)
(***************************************************************************)
\* The numeric value of a byte.  The offsets of the containers the model
\* builds are plain bytes; a digest byte has no value in the model.
ByteVal(x) == IF "b" \in DOMAIN x THEN x.b ELSE 0

\* DataView.getUint32(off, true) / Buffer.readUInt32LE(off): the value, or
\* -1 for the RangeError thrown when fewer than 4 bytes are left at off.
\* (Offsets of the model stay below 2^16, so two bytes carry them.)
getUint32(s, off) ==
    IF off + 4 > Len(s) THEN -1
    ELSE ByteVal(s[off + 1]) + 256 * ByteVal(s[off + 2])
         + 65536 * (ByteVal(s[off + 3]) + 256 * ByteVal(s[off + 4]))

COMMITTEE_BYTES == (COMMITTEE_SIZE + 1) * KEY_LEN

BRANCH_BYTES == BRANCH_LEN * HASH_LEN

\* offset.start after the two read_ssz calls
FIXED_END == SSZ_START + COMMITTEE_BYTES + BRANCH_BYTES

Update(state_root, pubkeys, aggregate_pubkey, branch) ==
    [t |-> "update", v |-> <<>>, e |-> <<>>,
     state_root |-> state_root,
     next_sync_committee |-> [pubkeys |-> pubkeys, aggregate_pubkey |-> aggregate_pubkey],
     next_sync_committee_branch |-> branch]

decode_ssz(ssz_data) ==
    LET bytes == ssz_data.v
        next_sync_committee == Slice(bytes, SSZ_START, SSZ_START + COMMITTEE_BYTES)
        next_sync_committee_branch == Slice(bytes, SSZ_START + COMMITTEE_BYTES, FIXED_END)
        attested_header_offset == getUint32(bytes, 0)
        attested_header_end_offset == getUint32(bytes, FIXED_END)
        attested_header == Slice(bytes, attested_header_offset, attested_header_end_offset)
    IN IF attested_header_offset < 0 \/ attested_header_end_offset < 0
       THEN Throw("RangeError: Offset is outside the bounds of the DataView")
       ELSE Update(Buf(Slice(attested_header, STATE_ROOT_START, STATE_ROOT_START + HASH_LEN)),
                   split_bytes(Slice(next_sync_committee, 0, COMMITTEE_SIZE * KEY_LEN), KEY_LEN),
                   Buf(Slice(next_sync_committee, COMMITTEE_SIZE * KEY_LEN, COMMITTEE_BYTES)),
                   split_bytes(next_sync_committee_branch, HASH_LEN))

\* A slice that keeps the fork digest
unframe_from8(data) ==
    LET length == getUint32(data.v, 0)
    IN IF length < 0 THEN Throw("RangeError: Offset is outside the bounds of the DataView")
       ELSE Buf(Slice(data.v, FRAME_LEN - 4, FRAME_LEN + length))

\* data.slice(12, 12 + view.getUint32(0, true)): the container handed to
\* decode_ssz, or the RangeError of a payload shorter than 4 bytes.
unframe(data) ==
    LET length == getUint32(data.v, 0)
    IN IF length < 0 THEN Throw("RangeError: Offset is outside the bounds of the DataView")
       ELSE Buf(Slice(data.v, FRAME_LEN, FRAME_LEN + length))

decode_framed(data) ==
    The({ IF IsThrow(container) THEN container ELSE decode_ssz(container)
          : container \in {unframe(data)} })

(***************************************************************************)
(* The verification step shared by the two checks                          *)
(***************************************************************************)
\* Lines 362-368 (528-566 in the minimal variant): "ok", or the exception.
verify_update(update, min) ==
    The({ The({ IF IsThrow(state_root_calculated) THEN state_root_calculated
                ELSE IF compare_buffers(state_root_calculated, update.state_root) # 0
                     THEN Throw("State root mismatch")
                     ELSE Returned("ok")
                : state_root_calculated \in
                    {IF IsThrow(sync_root) THEN sync_root
                     ELSE merkle_root_from_branch(ELECTRA_NEXT_SYNC_COMMITTEE_GINDEX,
                              update.next_sync_committee_branch, sync_root)} })
          : sync_root \in {calculate_next_sync_committee_root(update.next_sync_committee, min)} })

\* check_lcu_ssz from the fetched (or file) payload on
verify_from_binary(data, min) ==
    The({ IF IsThrow(update) THEN update ELSE verify_update(update, min)
          : update \in {decode_framed(data)} })

\* One period of check_lcu_json, lines 311-315 (518-523): data is r[0].data,
\* undefined when the node answered an empty list.
MapFromHex(xs) == ArrOrThrow([k \in 1..Len(xs) |-> fromHex(xs[k])])

\* A message that names the offset after the failing one
MismatchAt_next(i) ==
    [t |-> "throw", v |-> <<>>, e |-> <<"Invalid Merkle Proof : State root mismatch (i: ", i + 1, ")">>]

MismatchAt(i) ==
    [t |-> "throw", v |-> <<>>, e |-> <<"Invalid Merkle Proof : State root mismatch (i: ", i, ")">>]

verify_json_period(data, i, min) ==
    IF data.t = "undef" THEN Throw("TypeError: Cannot read properties of undefined")
    ELSE
    The({ The({ IF IsThrow(state_root_calculated) THEN state_root_calculated
                ELSE The({ IF IsThrow(state_root_expected) THEN state_root_expected
                           ELSE IF compare_buffers(state_root_calculated, state_root_expected) # 0
                                THEN MismatchAt(i)
                                ELSE Returned("ok")
                           : state_root_expected \in {fromHex(data.state_root)} })
                : state_root_calculated \in
                    {IF IsThrow(sync_root) THEN sync_root
                     ELSE The({ IF IsThrow(branch) THEN branch
                                ELSE merkle_root_from_branch(ELECTRA_NEXT_SYNC_COMMITTEE_GINDEX,
                                         branch.v, sync_root)
                                : branch \in {IF min THEN Arr(data.next_sync_committee_branch)
                                              ELSE MapFromHex(data.next_sync_committee_branch)} })} })
          : sync_root \in {calculate_next_sync_committee_root(data.next_sync_committee, min)} })

(***************************************************************************)
(* What the probed node (or the file) delivers.  These are the inputs of   *)
(* the checks: an update built from known keys, branch and state root, in  *)
(* the binary and in the JSON form, and damaged versions of it.            *)
(***************************************************************************)
PubKey(k) == [j \in 1..KEY_LEN |-> Byte(k)]

Pubkeys == [k \in 1..COMMITTEE_SIZE |-> PubKey(k)]

AggregateKey == [j \in 1..KEY_LEN |-> Byte(200)]

BranchEntry(k) == [j \in 1..HASH_LEN |-> Byte(100 + k)]

Branch == [k \in 1..BRANCH_LEN |-> BranchEntry(k)]

\* The state root that commits to Pubkeys, AggregateKey and Branch.
TrueStateRoot ==
    merkle_root_from_branch(ELECTRA_NEXT_SYNC_COMMITTEE_GINDEX,
        [k \in 1..BRANCH_LEN |-> Buf(Branch[k])],
        calculate_next_sync_committee_root(
            [pubkeys |-> [k \in 1..COMMITTEE_SIZE |-> Buf(Pubkeys[k])],
             aggregate_pubkey |-> Buf(AggregateKey)], FALSE)).v

\* One byte changed.
Flip(x) == IF "b" \in DOMAIN x THEN Byte((x.b + 1) % 256) ELSE Byte(0)

FlipAt(s, pos) == [s EXCEPT ![pos] = Flip(s[pos])]

U32(n) == <<Byte(n % 256), Byte((n \div 256) % 256), Byte((n \div 65536) % 256), Byte(n \div 16777216)>>

\* A beacon block header: slot, proposer index, parent root, state root,
\* body root (8 + 8 + 32 + 32 + 32 bytes), the slot being 0.
BeaconHeader(state_root) == Zeros(STATE_ROOT_START) \o state_root \o [j \in 1..HASH_LEN |-> Byte(7)]

\* A LightClientUpdate container: the offset of the attested header, the
\* committee, the branch, then what the builder puts after them.
Container(offset, pubkeys, aggregate, branch, rest) ==
    U32(offset) \o Concat(pubkeys) \o aggregate \o Concat(branch) \o rest

\* The SSZ layout: after the branch the offset of the next variable-size
\* field (the finalized header), which is where the attested header ends.
SszContainer(branch, state_root, end) ==
    Container(FIXED_END + 4, Pubkeys, AggregateKey, branch,
              U32(end) \o BeaconHeader(state_root) \o Zeros(8))

HEADER_END == FIXED_END + 4 + STATE_ROOT_START + 2 * HASH_LEN

\* The layout with the attested header right after the branch.
FlatContainer(state_root) ==
    Container(FIXED_END, Pubkeys, AggregateKey, Branch, BeaconHeader(state_root))

ValidContainer == SszContainer(Branch, TrueStateRoot, HEADER_END)

\* The framing of the response: the length, four more bytes of it, the fork
\* digest, the container (and whatever follows it).
Framed(container) ==
    Buf(U32(Len(container)) \o Zeros(4) \o <<Byte(1), Byte(2), Byte(3), Byte(4)>> \o container)

\* The binary answers: the valid update; one with the first and one with
\* the last byte of the state root changed; one with a branch entry
\* changed; the flat layout; one whose attested header ends inside the state
\* root; one whose header offset is past the end; one cut after the branch;
\* one of 6 bytes.
SszValid == Framed(ValidContainer)

SszBadRoot == Framed(SszContainer(Branch, FlipAt(TrueStateRoot, 1), HEADER_END))

SszBadRootTail == Framed(SszContainer(Branch, FlipAt(TrueStateRoot, HASH_LEN), HEADER_END))

SszBadBranch ==
    Framed(SszContainer([Branch EXCEPT ![BRANCH_LEN] = FlipAt(@, 1)], TrueStateRoot, HEADER_END))

SszFlat == Framed(FlatContainer(TrueStateRoot))

SszShortHeader == Framed(SszContainer(Branch, TrueStateRoot, HEADER_END - HASH_LEN - 1))

SszOffsetPastEnd ==
    Framed(U32(Len(ValidContainer) + 1) \o SubSeq(ValidContainer, 5, Len(ValidContainer)))

SszTruncated == Framed(SubSeq(ValidContainer, 1, FIXED_END))

SszTiny == Framed(U32(FIXED_END + 4) \o <<Byte(0), Byte(0)>>)

\* The valid update behind a length that is 8 more than the bytes that follow
SszFrameLong ==
    Buf(U32(Len(ValidContainer) + 8) \o Zeros(4) \o <<Byte(1), Byte(2), Byte(3), Byte(4)>>
        \o ValidContainer)

SszPayloads ==
    {SszValid, SszBadRoot, SszBadRootTail, SszBadBranch, SszFlat, SszShortHeader,
     SszOffsetPastEnd, SszTruncated, SszTiny, SszFrameLong}

JsonUpdate(branch, state_root) ==
    [t |-> "obj", v |-> <<>>, e |-> <<>>,
     next_sync_committee |-> [pubkeys |-> [k \in 1..COMMITTEE_SIZE |-> ToHex(Pubkeys[k])],
                              aggregate_pubkey |-> ToHex(AggregateKey)],
     next_sync_committee_branch |-> [k \in 1..Len(branch) |-> ToHex(branch[k])],
     state_root |-> ToHex(state_root)]

\* The JSON answers (r[0].data): the valid update; one with a byte of a
\* branch entry changed; one with a branch of five entries; an empty list
\* (r[0] is undefined).
JsonValid == JsonUpdate(Branch, TrueStateRoot)

JsonBadBranch == JsonUpdate([Branch EXCEPT ![2] = FlipAt(@, HASH_LEN)], TrueStateRoot)

JsonShortBranch == JsonUpdate(SubSeq(Branch, 1, BRANCH_LEN - 1), TrueStateRoot)

JsonPayloads == {JsonValid, JsonBadBranch, JsonShortBranch, Undef}

(***************************************************************************)
(* The check lists of the orchestrators.  fn names the function a check    *)
(* runs: "net" stands for the checks that only ask the node and report     *)
(* (version, headers, cors, events, block, the JSON-RPC and proof checks). *)
(***************************************************************************)
Check(name, fn, required) == [name |-> name, fn |-> fn, required |-> required]

SuitableCheck(name) == Check(name, "suitable", FALSE)

beacon_checks ==
    << Check("version", "net", TRUE),
       Check("headers_by_parent", "net", TRUE),
       Check("cors_headers", "net", FALSE),
       Check("sse_events", "net", FALSE),
       Check("block_as_ssz", "net", FALSE),
       Check("light_client_update as ssz", "lcu_ssz", FALSE),
       Check("light_client_update as json", "lcu_json", TRUE),
       Check("historical_proof", "net", FALSE),
       Check("avg_response_time", "avg_time", FALSE),
       SuitableCheck("colibri suitable") >>

file_checks == << Check("light_client_update as ssz", "lcu_ssz", TRUE) >>

node_checks ==
    << Check("version", "net", TRUE),
       Check("headers_by_parent", "net", TRUE),
       Check("block_as_ssz", "net", FALSE),
       Check("light_client_update as ssz", "lcu_ssz", FALSE),
       Check("light_client_update as json", "lcu_json", TRUE),
       Check("historical_proof", "net", FALSE),
       Check("avg_response_time", "avg_time", FALSE),
       SuitableCheck("\ncolibri suitable") >>

execution_checks ==
    << Check("web3_clientVersion", "net", TRUE),
       Check("cors_headers", "net", FALSE),
       Check("debug_traceCall", "net", TRUE),
       Check("eth_createAccessList", "net", FALSE),
       Check("eth_getProof", "net", TRUE),
       Check("eth_getBlockReceipts", "net", TRUE),
       Check("archive_check (latest-100,000)", "net", FALSE),
       Check("avg_response_time", "avg_time", FALSE),
       SuitableCheck("colibri suitable") >>

colibri_checks ==
    << Check("version", "net", TRUE),
       Check("proof_eth_blockNumber (non-zk)", "net", TRUE),
       Check("proof_eth_blockNumber (zk)", "net", TRUE),
       Check("avg_response_time", "avg_time", FALSE),
       SuitableCheck("colibri suitable") >>

\* The runs: check_beacon_node on a URL and on a file, the minimal
\* check_node, check_execution_node, check_colibri_node.
Variants == {"beacon", "file", "node", "execution", "colibri"}

ChecksOf(v) ==
    CASE v = "beacon" -> beacon_checks
      [] v = "file" -> file_checks
      [] v = "node" -> node_checks
      [] v = "execution" -> execution_checks
      [] v = "colibri" -> colibri_checks

\* The periods check_lcu_json verifies
LCU_PERIODS == 21

LCU_PERIODS_MIN == 10

\* A loop that stops one period early
PeriodsOf_short(v) == IF v = "node" THEN LCU_PERIODS_MIN - 1 ELSE LCU_PERIODS - 1

PeriodsOf(v) == IF v = "node" THEN LCU_PERIODS_MIN ELSE LCU_PERIODS

(***************************************************************************)
(* The head slot.  A slot is q * 8192 + r, kept as [q, r] so that slots of *)
(* 2^31 and more can be stated; `slot >> 13` converts the slot to a signed *)
(* 32-bit integer first, which keeps the low 19 bits of q as a signed      *)
(* number.                                                                 *)
(***************************************************************************)
Slot(q, r) == [q |-> q, r |-> r]

ShiftRight13(slot) ==
    LET m == slot.q % 524288
    IN IF m >= 262144 THEN m - 524288 ELSE m

\* The head slots the node may report: one in period 1200, and 2^31 + 5.
Slots == {Slot(1200, 77), Slot(262144, 5)}

(***************************************************************************)
(* State                                                                   *)
(***************************************************************************)
VARIABLES
    variant,                 \* which orchestrator runs
    ci,                      \* index of the check being run (1-based)
    pc,                      \* where the running check waits
    results,                 \* the results array
    required_checks_failed,  \* names of the required checks that failed
    printed,                 \* what the CLI callback has printed, in order
    raised,                  \* what the last check function returned or threw
    slot,                    \* the head slot the running check was answered
    period,                  \* its period (-1 before it is known)
    i,                       \* loop index of check_lcu_json
    data,                    \* the update the running check holds
    inflight,                \* the requests sent and not yet answered
    fetched,                 \* start_period of the update requests sent by the running check
    verified                 \* the offsets the running check has verified

runVars == <<variant, ci, pc, results, required_checks_failed, printed, raised,
             slot, period, i, data, inflight, fetched, verified>>

\* One call of Node.exec, followed step by step
VARIABLES
    xpc,                     \* where exec waits: "idle", "fetch" or "body"
    xreq,                    \* the request and, once they came, the response's status and type
    timer,                   \* the timeout of the call: "none", "armed", "cleared" or "fired"
    started,                 \* calls of exec so far
    req_count,               \* this.req_count
    xout                     \* what the last call returned or threw

execVars == <<xpc, xreq, timer, started, req_count, xout>>

\* The caller of a run
VARIABLES
    cancelled                \* the offset check_lcu_json was at when the caller gave the
                             \* run up, -1 while the caller waits for it

cancelVars == <<cancelled>>

\* Two runs of an orchestrator that overlap
VARIABLES
    runs,                    \* of each run: its checker, the index of its check, its
                             \* results array and what its check functions returned or threw
    failed_of                \* of each run: its required_checks_failed

pairVars == <<runs, failed_of>>

\* The callers of the checkers: the detection of the node type, the event
\* stream check, the handler of POST /check and the auto-detecting CLI
VARIABLES
    detect,                  \* a call of detectNodeType: where it waits, its three probes,
                             \* the order they settled in and what it returned or threw
    sse,                     \* a call of check_sse_events: its promise, timer and stream
    post,                    \* a request to POST /check: the URLs, all_results, the answers sent
    cli                      \* a run of the CLI: the nodes, suitable_nodes, what it printed

callerVars == <<detect, sse, post, cli>>

\* What a run of the checks leaves alone
aux == <<execVars, cancelVars, pairVars, pureVars, callerVars>>

\* What a call of exec leaves alone
exceptExec == <<runVars, cancelVars, pairVars, pureVars, callerVars>>

\* What the caller leaves alone
exceptCancel == <<runVars, execVars, pairVars, pureVars, callerVars>>

\* What two overlapping runs leave alone
exceptPair == <<runVars, execVars, cancelVars, pureVars, callerVars>>

\* What a call of a hashing function leaves alone
exceptPure == <<runVars, execVars, cancelVars, pairVars, callerVars>>

\* What the callers of the checkers leave alone
exceptCallers == <<runVars, execVars, cancelVars, pairVars, pureVars>>

vars == <<runVars, aux>>

checks == ChecksOf(variant)

NoSlot == Slot(0, 0)

NoRequest == [path |-> "", ssz |-> FALSE, status |-> 0, content_type |-> ""]

\* new Node(url), no request made
ExecIdle ==
    /\ xpc = "idle"
    /\ xreq = NoRequest
    /\ timer = "none"
    /\ started = 0
    /\ req_count = 0
    /\ xout = Undef

\* No second run
PairIdle == runs = <<>> /\ failed_of = <<>>

\* Nothing but the run of the checks
\* No probe of detectNodeType has been started
NoProbe == [pc |-> "idle", timer |-> "none", reason |-> <<>>]

DetectIdle == [pc |-> "idle", url |-> <<>>, probes |-> <<NoProbe, NoProbe, NoProbe>>,
               order |-> <<>>, out |-> Undef]

SseIdle == [pc |-> "idle", isBrowser |-> FALSE, timer |-> "none", promise |-> "pending",
            out |-> Undef, settles |-> 0, aborted |-> FALSE, events |-> <<>>]

PostIdle == [pc |-> "idle", auto |-> FALSE, urls |-> Undef, clientType |-> Undef, list |-> <<>>,
             k |-> 0, type |-> "", all_results |-> <<>>, answers |-> <<>>, threw |-> FALSE]

CliIdle == [pc |-> "idle", args |-> <<>>, nodes |-> <<>>, k |-> 0, type |-> "",
            suitable_nodes |-> <<>>, ran |-> <<>>, printed |-> <<>>]

CallersIdle == detect = DetectIdle /\ sse = SseIdle /\ post = PostIdle /\ cli = CliIdle

AuxIdle == ExecIdle /\ cancelled = -1 /\ PairIdle /\ calls = <<>> /\ CallersIdle

Init ==
    /\ AuxIdle
    /\ variant \in Variants
    /\ ci = 1
    /\ pc = "idle"
    /\ results = <<>>
    /\ required_checks_failed = <<>>
    /\ printed = <<>>
    /\ raised = Undef
    /\ slot = NoSlot
    /\ period = -1
    /\ i = 0
    /\ data = Undef
    /\ inflight = {}
    /\ fetched = <<>>
    /\ verified = <<>>

(***************************************************************************)
(* The orchestration loop: what happens when check.fn settles              *)
(***************************************************************************)
\* A result that reports every check as passed
ResultOf_passed(check, outcome) ==
    [name |-> check.name, result |-> outcome.e, passed |-> TRUE]

\* The result pushed for a check whose function returned or threw `outcome`
ResultOf(check, outcome) ==
    [name |-> check.name, result |-> outcome.e, passed |-> ~IsThrow(outcome)]

\* A catch that records every failed check, required or not
FailedAfter_any(check, outcome, failed) ==
    IF IsThrow(outcome) THEN Append(failed, check.name) ELSE failed

\* if (check.required) required_checks_failed.push(check.name), in the catch
FailedAfter(check, outcome, failed) ==
    IF IsThrow(outcome) /\ check.required THEN Append(failed, check.name) ELSE failed

\* The symbol the CLI callback prints for a result
Symbol(res, defs) ==
    LET found == {k \in 1..Len(defs) : defs[k].name = res.name}
        is_required == IF found = {} THEN FALSE
                       ELSE defs[CHOOSE k \in found : \A j \in found : k <= j].required
    IN IF res.name = "colibri suitable"
       THEN (IF res.passed THEN "pass" ELSE "error")
       ELSE (IF res.passed THEN "pass" ELSE IF is_required THEN "error" ELSE "warning")

cb(res, defs) == [name |-> res.name, symbol |-> Symbol(res, defs), result |-> res.result]

\* A loop that never calls the callback
Settle_silent(outcome) ==
    LET res == ResultOf(checks[ci], outcome)
    IN /\ results' = Append(results, res)
       /\ required_checks_failed' = FailedAfter(checks[ci], outcome, required_checks_failed)
       /\ printed' = printed
       /\ raised' = outcome
       /\ ci' = ci + 1
       /\ pc' = IF ci + 1 > Len(checks) THEN "done" ELSE "idle"
       /\ UNCHANGED variant

\* The body of the for loop after `await check.fn(node)` settled: the
\* result is pushed, the callback called, the next check is up.
Settle(outcome) ==
    LET res == ResultOf(checks[ci], outcome)
    IN /\ results' = Append(results, res)
       /\ required_checks_failed' = FailedAfter(checks[ci], outcome, required_checks_failed)
       /\ printed' = Append(printed, cb(res, checks))
       /\ raised' = outcome
       /\ ci' = ci + 1
       /\ pc' = IF ci + 1 > Len(checks) THEN "done" ELSE "idle"
       /\ UNCHANGED variant

Running(fn) == pc = "idle" /\ ci <= Len(checks) /\ checks[ci].fn = fn

\* A check function is entered: nothing is left of the one before.
EnterWith(d) ==
    /\ slot' = NoSlot
    /\ period' = -1
    /\ i' = 0
    /\ data' = d
    /\ fetched' = <<>>
    /\ verified' = <<>>

Enter == EnterWith(Undef)

\* A request that fails: the node is unreachable, answers with an error
\* status, or does not answer in time.
FetchFailed == Throw("Request timed out after 7 seconds")

\* A catch that sends the failed request again
Resent_again(req) == {req}

\* The requests sent again when request req failed: the catch of exec
\* rethrows, and no caller catches to ask again.
Resent(req) == {}

\* The checks of this kind that failed so far
NetFailures == Cardinality({k \in 1..Len(results) : ~results[k].passed /\ checks[k].fn = "net"})

\* A check that asks the node and reports
NetCheck ==
    /\ UNCHANGED aux
    /\ Running("net")
    /\ Enter
    /\ UNCHANGED inflight
    /\ \/ Settle(Returned("ok"))
       \/ NetFailures < MaxNetFailures /\ Settle(FetchFailed)

\* () => node.avg_time
AvgTime ==
    /\ UNCHANGED aux
    /\ Running("avg_time")
    /\ Enter
    /\ UNCHANGED inflight
    /\ Settle(Returned("avg ms"))

RECURSIVE Join(_)
\* names.join(', ')
Join(names) ==
    IF Len(names) = 0 THEN <<>>
    ELSE IF Len(names) = 1 THEN names
    ELSE <<Head(names), ", ">> \o Join(Tail(names))

suitable(failed) ==
    IF Len(failed) # 0
    THEN [t |-> "throw", v |-> <<>>, e |-> <<"required checks failed: ">> \o Join(failed)]
    ELSE Returned("ok")

Suitable ==
    /\ UNCHANGED aux
    /\ Running("suitable")
    /\ Enter
    /\ UNCHANGED inflight
    /\ Settle(suitable(required_checks_failed))

(***************************************************************************)
(* check_lcu_json                                                          *)
(***************************************************************************)
HeadRequest == [path |-> "/eth/v1/beacon/headers/head"]

UpdateRequest(start_period, ssz) ==
    [path |-> "/eth/v1/beacon/light_client/updates", start_period |-> start_period,
     count |-> 1, ssz |-> ssz]

IsMin == variant = "node"

\* A loop that requests the updates of all remaining offsets at once
OffsetsToFetch_all(k, n) == [j \in 1..(n - k) |-> k + j - 1]

\* The offsets whose update the loop requests when it is at offset k of n:
\* the one of this iteration.
OffsetsToFetch(k, n) == <<k>>

\* The loop reaches its top at offset k: the requests it sends from period p.
Requests(p, k, n) ==
    LET offs == OffsetsToFetch(k, n)
    IN [j \in 1..Len(offs) |-> UpdateRequest(p - offs[j], FALSE)]

Range(f) == {f[x] : x \in DOMAIN f}

StartPeriods(reqs) == [j \in 1..Len(reqs) |-> reqs[j].start_period]

\* const slot = await node.json('/eth/v1/beacon/headers/head')...
LcuJsonStart ==
    /\ UNCHANGED aux
    /\ Running("lcu_json")
    /\ Enter
    /\ pc' = "json_head"
    /\ inflight' = inflight \cup {HeadRequest}
    /\ UNCHANGED <<variant, ci, results, required_checks_failed, printed, raised>>

\* The head request settles: it failed and so does the check, or
\* period = slot >> 13 and the loop requests the update of offset 0.
LcuJsonHead ==
    /\ UNCHANGED aux
    /\ pc = "json_head"
    /\ \/ /\ Settle(FetchFailed)
          /\ inflight' = (inflight \ {HeadRequest}) \cup Resent(HeadRequest)
          /\ UNCHANGED <<slot, period, i, data, fetched, verified>>
       \/ \E s \in Slots :
            LET reqs == Requests(ShiftRight13(s), 0, PeriodsOf(variant))
            IN /\ slot' = s
               /\ period' = ShiftRight13(s)
               /\ i' = 0
               /\ inflight' = (inflight \ {HeadRequest}) \cup Range(reqs)
               /\ fetched' = StartPeriods(reqs)
               /\ pc' = "json_fetch"
               /\ UNCHANGED <<variant, ci, results, required_checks_failed, printed, raised, data, verified>>

\* The update request of offset i settles.  It failed and so does the
\* check; or the roots are computed and compared, and on a difference the
\* check throws, else the loop goes on with offset i + 1: the next update
\* is requested, or 'ok' returned after the last offset.
LcuJsonUpdate ==
    /\ UNCHANGED aux
    /\ pc = "json_fetch"
    /\ \/ /\ Settle(FetchFailed)
          /\ inflight' = (inflight \ {UpdateRequest(period - i, FALSE)})
                              \cup Resent(UpdateRequest(period - i, FALSE))
          /\ UNCHANGED <<slot, period, i, data, fetched, verified>>
       \/ \E answer \in JsonPayloads :
          \E r \in {verify_json_period(answer, i, IsMin)} :
          \E more \in {~IsThrow(r) /\ i + 1 < PeriodsOf(variant)} :
            LET reqs == IF more THEN Requests(period, i + 1, PeriodsOf(variant)) ELSE <<>>
            IN /\ data' = answer
               /\ inflight' = (inflight \ {UpdateRequest(period - i, FALSE)}) \cup Range(reqs)
               /\ fetched' = fetched \o StartPeriods(reqs)
               /\ verified' = IF IsThrow(r) THEN verified ELSE Append(verified, i)
               /\ i' = IF IsThrow(r) THEN i ELSE i + 1
               /\ UNCHANGED <<slot, period>>
               /\ IF more
                  THEN UNCHANGED <<variant, ci, pc, results, required_checks_failed, printed, raised>>
                  ELSE Settle(r)

(***************************************************************************)
(* check_lcu_ssz                                                           *)
(***************************************************************************)
\* A file is read and verified at once.
LcuSszFile ==
    /\ UNCHANGED aux
    /\ Running("lcu_ssz")
    /\ variant = "file"
    /\ \E content \in SszPayloads :
         /\ EnterWith(content)
         /\ \E r \in {verify_from_binary(content, IsMin)} : Settle(r)
    /\ UNCHANGED inflight

\* For a URL the head is asked first.
LcuSszStart ==
    /\ UNCHANGED aux
    /\ Running("lcu_ssz")
    /\ variant # "file"
    /\ Enter
    /\ pc' = "ssz_head"
    /\ inflight' = inflight \cup {HeadRequest}
    /\ UNCHANGED <<variant, ci, results, required_checks_failed, printed, raised>>

\* The head request settles and the update of the head's period is
\* requested as SSZ.
LcuSszHead ==
    /\ UNCHANGED aux
    /\ pc = "ssz_head"
    /\ \/ /\ Settle(FetchFailed)
          /\ inflight' = (inflight \ {HeadRequest}) \cup Resent(HeadRequest)
          /\ UNCHANGED <<slot, period, i, data, fetched, verified>>
       \/ \E s \in Slots :
            /\ slot' = s
            /\ period' = ShiftRight13(s)
            /\ inflight' = (inflight \ {HeadRequest}) \cup {UpdateRequest(ShiftRight13(s), TRUE)}
            /\ fetched' = Append(fetched, ShiftRight13(s))
            /\ pc' = "ssz_fetch"
            /\ UNCHANGED <<variant, ci, results, required_checks_failed, printed, raised,
                           i, data, verified>>

\* The update request settles: decoding, root computation and comparison.
LcuSszUpdate ==
    /\ UNCHANGED aux
    /\ pc = "ssz_fetch"
    /\ UNCHANGED <<slot, period, i, fetched, verified>>
    /\ \/ /\ Settle(FetchFailed)
          /\ inflight' = (inflight \ {UpdateRequest(period, TRUE)})
                              \cup Resent(UpdateRequest(period, TRUE))
          /\ UNCHANGED data
       \/ \E answer \in SszPayloads :
            /\ data' = answer
            /\ inflight' = inflight \ {UpdateRequest(period, TRUE)}
            /\ \E r \in {verify_from_binary(answer, IsMin)} : Settle(r)

Next ==
    \/ NetCheck
    \/ AvgTime
    \/ Suitable
    \/ LcuJsonStart
    \/ LcuJsonHead
    \/ LcuJsonUpdate
    \/ LcuSszFile
    \/ LcuSszStart
    \/ LcuSszHead
    \/ LcuSszUpdate

Spec == Init /\ [][Next]_vars

(***************************************************************************)
(* A run whose caller gives it up                                          *)
(***************************************************************************)
CancelInit == Init /\ variant = "node"

\* The caller stops waiting for the run (the client of POST /check closes
\* its connection) while check_lcu_json waits for the update of offset i.
\* Nothing of the run reads it: no signal is passed to the check functions.
Cancel ==
    /\ pc = "json_fetch"
    /\ cancelled = -1
    /\ cancelled' = i
    /\ UNCHANGED exceptCancel

CancelNext ==
    \/ NetCheck
    \/ AvgTime
    \/ Suitable
    \/ LcuJsonStart
    \/ LcuJsonHead
    \/ LcuJsonUpdate
    \/ LcuSszStart
    \/ LcuSszHead
    \/ LcuSszUpdate
    \/ Cancel

CancelSpec == CancelInit /\ [][CancelNext]_vars

(***************************************************************************)
(* Two runs that overlap: each call of an orchestrator has its own node,   *)
(* results and required_checks_failed                                      *)
(***************************************************************************)
MaxPairFailures == 1

Runs == {1, 2}

PairVariants == {"beacon", "colibri"}

\* A module-level list that all runs push to
FailedListOf_shared(r) == 1

\* The required_checks_failed a run pushes to and reads: the one declared
\* in its own call.
FailedListOf(r) == r

PairInit ==
    /\ Init
    /\ variant = "beacon"

\* The two calls are made
PairStart ==
    /\ runs = <<>>
    /\ \E v1, v2 \in PairVariants :
         runs' = [r \in Runs |-> [variant |-> IF r = 1 THEN v1 ELSE v2, ci |-> 1,
                                  results |-> <<>>, outcomes |-> <<>>]]
    /\ failed_of' = [r \in Runs |-> <<>>]
    /\ UNCHANGED exceptPair

PairFailures(r) ==
    Cardinality({k \in 1..Len(runs[r].outcomes) :
                    IsThrow(runs[r].outcomes[k]) /\ ChecksOf(runs[r].variant)[k].fn # "suitable"})

\* What the check function of run r can return or throw
PairOutcomes(r, check) ==
    IF check.fn = "suitable" THEN {suitable(failed_of[FailedListOf(r)])}
    ELSE IF check.fn = "avg_time" THEN {Returned("avg ms")}
    ELSE {Returned("ok")} \cup (IF PairFailures(r) < MaxPairFailures THEN {FetchFailed} ELSE {})

\* The check function run r awaits settles, the other run waiting
PairStep ==
    /\ runs # <<>>
    /\ \E r \in Runs :
         /\ runs[r].ci <= Len(ChecksOf(runs[r].variant))
         /\ \E check \in {ChecksOf(runs[r].variant)[runs[r].ci]} :
            \E outcome \in PairOutcomes(r, check) :
              /\ runs' = [runs EXCEPT ![r] =
                            [@ EXCEPT !.ci = @ + 1,
                                      !.results = Append(@, ResultOf(check, outcome)),
                                      !.outcomes = Append(@, outcome)]]
              /\ failed_of' = [failed_of EXCEPT ![FailedListOf(r)] = FailedAfter(check, outcome, @)]
    /\ UNCHANGED exceptPair

PairNext ==
    \/ PairStart
    \/ PairStep

PairSpec == PairInit /\ [][PairNext]_vars

(***************************************************************************)
(* The hashing functions, called one after the other                       *)
(***************************************************************************)
MaxCalls == 2

MaxRoots == 4

\* n keys and an aggregate key
Committee(n) ==
    [pubkeys |-> [k \in 1..n |-> Buf(PubKey(k))], aggregate_pubkey |-> Buf(AggregateKey)]

Committees == {Committee(n) : n \in (1..MaxRoots) \cup {COMMITTEE_SIZE}}

\* n roots
Roots(n) == [k \in 1..n |-> Buf(BranchEntry(k))]

RootLists == {Roots(n) : n \in 1..MaxRoots}

Leaves == {Buf(BranchEntry(50)), Buf(BranchEntry(51))}

BufBranch == [k \in 1..BRANCH_LEN |-> Buf(Branch[k])]

Branches == {BufBranch, [BufBranch EXCEPT ![4] = Buf(BranchEntry(60))]}

MerkleArgs ==
    {[gindex |-> ELECTRA_NEXT_SYNC_COMMITTEE_GINDEX, branch |-> b, leaf |-> l]
        : b \in Branches, l \in Leaves}
    \cup {[gindex |-> 5, branch |-> SubSeq(BufBranch, 1, 2), leaf |-> Buf(BranchEntry(50))],
          [gindex |-> 1, branch |-> <<>>, leaf |-> Buf(BranchEntry(50))]}

\* What the call of fn of the full or the minimal checker returns or throws
PureCall(fn, min, arg) ==
    IF fn = "calculate_next_sync_committee_root"
    THEN calculate_next_sync_committee_root(arg, min)
    ELSE IF fn = "merkle_root_from_branch"
    THEN merkle_root_from_branch(arg.gindex, arg.branch, arg.leaf)
    ELSE IF min THEN hash_roots_min(arg) ELSE hash_roots(arg)

\* The lengths the reduction loop of the call went through
PureLengths(fn, min, arg) ==
    IF fn = "calculate_next_sync_committee_root"
    THEN The({ IF IsThrow(leaves) THEN <<>> ELSE ReduceLengths(leaves.v, min)
               : leaves \in {ArrOrThrow([k \in 1..Len(arg.pubkeys) |-> hash_key(arg.pubkeys[k])])} })
    ELSE <<>>

\* The branch positions the call read, in order
PureReads(fn, min, arg) ==
    IF fn = "merkle_root_from_branch" THEN branch_reads(arg.gindex, arg.branch, arg.leaf)
    ELSE <<>>

Called(fn, min, arg) ==
    /\ \E out \in {PureCall(fn, min, arg)} :
       \E lengths \in {PureLengths(fn, min, arg)} :
       \E reads \in {PureReads(fn, min, arg)} :
          calls' = Append(calls, [fn |-> fn, min |-> min, arg |-> arg,
                                  out |-> out, lengths |-> lengths, reads |-> reads])
    /\ UNCHANGED exceptPure

CallCommitteeRoot ==
    /\ Len(calls) < MaxCalls
    /\ \E min \in BOOLEAN, arg \in Committees :
          Called("calculate_next_sync_committee_root", min, arg)

CallMerkleRoot ==
    /\ Len(calls) < MaxCalls
    /\ \E min \in BOOLEAN, arg \in MerkleArgs :
          Called("merkle_root_from_branch", min, arg)

CallHashRoots ==
    /\ Len(calls) < MaxCalls
    /\ \E min \in BOOLEAN, arg \in RootLists :
          Called("hash_roots", min, arg)

PureInit == Init /\ variant = "beacon"

PureNext ==
    \/ CallCommitteeRoot
    \/ CallMerkleRoot
    \/ CallHashRoots

PureSpec == PureInit /\ [][PureNext]_vars

(***************************************************************************)
(* compare_buffers, called on small buffers                                *)
(***************************************************************************)
\* Buffers of up to two bytes: empty, differing in the first byte, in the
\* last, in the length only; and a value that is no buffer
CompareArgs ==
    {Buf(<<>>), Buf(<<Byte(0)>>), Buf(<<Byte(1)>>), Buf(<<Byte(0), Byte(0)>>),
     Buf(<<Byte(0), Byte(1)>>), Undef}

CallCompare ==
    /\ Len(calls) < MaxCalls
    /\ \E isBrowser \in BOOLEAN, a \in CompareArgs, b \in CompareArgs :
          calls' = Append(calls, [fn |-> "compare_buffers", min |-> FALSE,
                                  arg |-> [isBrowser |-> isBrowser, a |-> a, b |-> b],
                                  out |-> compare_buffers_in(isBrowser, a, b),
                                  lengths |-> <<>>, reads |-> <<>>])
    /\ UNCHANGED exceptPure

CompareNext == CallCompare

CompareSpec == PureInit /\ [][CompareNext]_vars

(***************************************************************************)
(* One update, verified in its binary and in its JSON form                 *)
(***************************************************************************)
\* The branches and state roots of the updates: the true ones and ones with
\* a byte changed
UpdateBranches ==
    {Branch, [Branch EXCEPT ![1] = FlipAt(@, 1)], [Branch EXCEPT ![BRANCH_LEN] = FlipAt(@, HASH_LEN)]}

UpdateStateRoots == {TrueStateRoot, FlipAt(TrueStateRoot, 1), FlipAt(TrueStateRoot, HASH_LEN)}

\* The verification steps of check_lcu_ssz and of a period of check_lcu_json
\* are run on the two forms of one update
CallVerify ==
    /\ Len(calls) < MaxCalls
    /\ \E min \in BOOLEAN, branch \in UpdateBranches, state_root \in UpdateStateRoots :
       \E ssz \in {verify_from_binary(Framed(SszContainer(branch, state_root, HEADER_END)), min)} :
       \E json \in {verify_json_period(JsonUpdate(branch, state_root), 0, min)} :
          calls' = Append(calls, [fn |-> "verify", min |-> min,
                                  arg |-> [branch |-> branch, state_root |-> state_root],
                                  out |-> [ssz |-> ssz, json |-> json],
                                  lengths |-> <<>>, reads |-> <<>>])
    /\ UNCHANGED exceptPure

VerifyNext == CallVerify

VerifySpec == PureInit /\ [][VerifyNext]_vars

(***************************************************************************)
(* detectNodeType.  A URL is a string of characters; a probe goes through  *)
(* fetchWithTimeout (the fetch under a timer) and then reads the body.     *)
(***************************************************************************)
RECURSIVE TrimStart(_)
TrimStart(s) == IF s # <<>> /\ Head(s) = " " THEN TrimStart(Tail(s)) ELSE s

RECURSIVE TrimEnd(_)
TrimEnd(s) == IF s # <<>> /\ s[Len(s)] = " " THEN TrimEnd(SubSeq(s, 1, Len(s) - 1)) ELSE s

\* String.prototype.trim
Trim(s) == TrimEnd(TrimStart(s))

normalizeUrl(rawUrl) ==
    IF rawUrl.t # "str" \/ rawUrl.v = <<>> THEN Throw("Invalid URL provided")
    ELSE The({ IF trimmed = <<>> THEN Throw("Empty URL provided")
               ELSE IF trimmed[Len(trimmed)] = "/" THEN Str(SubSeq(trimmed, 1, Len(trimmed) - 1))
               ELSE Str(trimmed) : trimmed \in {Trim(rawUrl.v)} })

Num == [t |-> "num", v |-> <<>>, e |-> <<>>]

\* What a caller passes as the URL: nothing, a number, an empty or blank
\* string, and URLs with and without a slash at the end and blanks around
RawUrls ==
    {Undef, Num, Str(<<>>), Str(<<" ">>), Str(<<"h">>), Str(<<"h", "/">>), Str(<<" ", "h", " ">>),
     Str(<<"b">>)}

\* An error object: with a message, or (an object of the node's JSON) with
\* the JSON text it has
ErrorOf(message) == [t |-> "throw", v |-> <<>>, e |-> message]

ErrorObject(text) == [t |-> "obj", v |-> <<text>>, e |-> <<>>]

\* The text describeError gives: a tuple of the parts of the text
describeError(error) ==
    IF error.t \in {"undef", "null"} \/ (error.t = "str" /\ error.v = <<>>) THEN <<"unknown error">>
    ELSE IF error.t = "str" THEN <<error.v>>
    ELSE IF error.e # <<>> THEN error.e
    ELSE <<"JSON.stringify", error.v>>

\* The body of a response: no JSON, null, or an object with the fields the
\* probes look at
Json(result, error, vendor) == [t |-> "obj", result |-> result, error |-> error, vendor |-> vendor]

NotJson == [t |-> "text", result |-> Undef, error |-> Undef, vendor |-> Undef]

JsonNull == [t |-> "null", result |-> Undef, error |-> Undef, vendor |-> Undef]

ColibriVendor == <<"C", "o", "l", "n", "b", "r", "n">>

GethVendor == <<"G", "e", "t", "h">>

Bodies ==
    {NotJson, JsonNull, Json(Undef, Undef, Undef),
     Json(Str(GethVendor), Undef, Undef), Json(Num, Undef, Undef),
     Json(Undef, Str(<<"denied">>), Undef),
     Json(Undef, ErrorOf(<<"method not found">>), Undef),
     Json(Undef, ErrorObject("{code:-32601}"), Undef),
     Json(Undef, Undef, Str(ColibriVendor)), Json(Undef, Undef, Str(GethVendor)),
     Json(Undef, Undef, Num)}

\* The capital letters of the vendors and their small ones
LowerOf == [c \in {"C", "G"} |-> IF c = "C" THEN "c" ELSE "g"]

toLowerCase(s) == [n \in 1..Len(s) |-> IF s[n] \in DOMAIN LowerOf THEN LowerOf[s[n]] ELSE s[n]]

includes(s, part) ==
    \E n \in 0..(Len(s) - Len(part)) : SubSeq(s, n + 1, n + Len(part)) = part

\* response.json() of a body that is no JSON
SyntaxError == ErrorOf(<<"Unexpected token < in JSON">>)

\* The statuses the probed node answers with
ProbeStatuses == {200, 204, 404, 500}

\* response.ok
Ok(status) == status >= 200 /\ status <= 299

HttpError(status) == ErrorOf(<<"HTTP ", status>>)

\* The three probes after their fetch: what they return or throw for the
\* body of an ok response
probeBeacon(json) ==
    IF json.t = "text" THEN SyntaxError ELSE Returned("beacon")

probeExecution(json) ==
    IF json.t = "text" THEN SyntaxError
    ELSE IF json.t = "obj" /\ json.result.t = "str" THEN Returned("execution")
    ELSE IF json.t = "obj" /\ json.error.t # "undef" THEN ErrorOf(describeError(json.error))
    ELSE Throw("Unexpected RPC response")

probeColibri(json) ==
    IF json.t = "text" THEN SyntaxError
    ELSE IF json.t # "obj" \/ json.vendor.t # "str" THEN Throw("Invalid version response")
    ELSE IF ~includes(toLowerCase(json.vendor.v), toLowerCase(ColibriVendor))
         THEN ErrorOf(<<"Unexpected vendor: ", json.vendor.v>>)
    ELSE Returned("colibri")

\* const probes = [...]: the types in the order of the array
PROBE_TYPES == <<"beacon", "execution", "colibri">>

ProbeFn(n, json) ==
    IF n = 1 THEN probeBeacon(json) ELSE IF n = 2 THEN probeExecution(json) ELSE probeColibri(json)

Settled(probe) == probe.pc \in {"fulfilled", "rejected"}

\* Promise.allSettled has all its results
AllSettled_any(d) ==
    \/ \E n \in 1..Len(d.probes) : d.probes[n].pc = "fulfilled"
    \/ \A n \in 1..Len(d.probes) : Settled(d.probes[n])

AllSettled(d) == \A n \in 1..Len(d.probes) : Settled(d.probes[n])

\* The probe's promise settles: what it threw is its reason
SettleProbe(d, n, outcome) ==
    [d EXCEPT !.probes[n].pc = IF IsThrow(outcome) THEN "rejected" ELSE "fulfilled",
              !.probes[n].timer = IF @ = "armed" THEN "cleared" ELSE @,
              !.probes[n].reason = outcome,
              !.order = Append(@, n)]

\* The loop over results and the error built when it finds nothing
DetectOutcome_race(d) ==
    IF \E n \in 1..Len(d.probes) : d.probes[n].pc = "fulfilled"
    THEN Returned(PROBE_TYPES[d.order[CHOOSE k \in 1..Len(d.order) :
                      /\ d.probes[d.order[k]].pc = "fulfilled"
                      /\ \A m \in 1..(k - 1) : d.probes[d.order[m]].pc # "fulfilled"]])
    ELSE ErrorOf(<<"Unable to detect node type (">>
                 \o Join([n \in 1..Len(d.probes) |->
                             <<PROBE_TYPES[n], ": ", describeError(d.probes[n].reason)>>])
                 \o <<")">>)

DetectOutcome(d) ==
    IF \E n \in 1..Len(d.probes) : d.probes[n].pc = "fulfilled"
    THEN Returned(PROBE_TYPES[CHOOSE n \in 1..Len(d.probes) :
                      /\ d.probes[n].pc = "fulfilled"
                      /\ \A m \in 1..(n - 1) : d.probes[m].pc # "fulfilled"])
    ELSE ErrorOf(<<"Unable to detect node type (">>
                 \o Join([n \in 1..Len(d.probes) |->
                             <<PROBE_TYPES[n], ": ", describeError(d.probes[n].reason)>>])
                 \o <<")">>)

exceptDetect == <<exceptCallers, sse, post, cli>>

\* detectNodeType is called: the URL is normalized and the three probes sent
DetectStart ==
    /\ detect.pc = "idle"
    /\ \E rawUrl \in RawUrls :
       \E normalizedUrl \in {normalizeUrl(rawUrl)} :
          detect' = IF IsThrow(normalizedUrl)
                    THEN [detect EXCEPT !.pc = "thrown", !.out = normalizedUrl]
                    ELSE [detect EXCEPT !.pc = "waiting", !.url = normalizedUrl.v,
                                        !.probes = [n \in 1..Len(PROBE_TYPES) |->
                                                       [pc |-> "fetch", timer |-> "armed",
                                                        reason |-> <<>>]]]
    /\ UNCHANGED exceptDetect

\* The fetch of a probe resolves with a response
ProbeResponse(n) ==
    /\ detect.probes[n].pc = "fetch"
    /\ \E status \in ProbeStatuses :
          detect' = IF Ok(status)
                    THEN [detect EXCEPT !.probes[n].pc = "body", !.probes[n].timer = "cleared"]
                    ELSE SettleProbe(detect, n, HttpError(status))
    /\ UNCHANGED exceptDetect

\* The fetch of a probe rejects: the node cannot be reached
ProbeNetError(n) ==
    /\ detect.probes[n].pc = "fetch"
    /\ detect' = SettleProbe(detect, n, Throw("fetch failed"))
    /\ UNCHANGED exceptDetect

\* The timer of a probe fires and aborts its fetch
ProbeTimeout(n) ==
    /\ detect.probes[n].pc = "fetch"
    /\ detect.probes[n].timer = "armed"
    /\ detect' = SettleProbe([detect EXCEPT !.probes[n].timer = "fired"], n,
                             Throw("This operation was aborted"))
    /\ UNCHANGED exceptDetect

\* response.json() of a probe settles
ProbeBody(n) ==
    /\ detect.probes[n].pc = "body"
    /\ \E json \in Bodies : detect' = SettleProbe(detect, n, ProbeFn(n, json))
    /\ UNCHANGED exceptDetect

\* Promise.allSettled resolves and detectNodeType goes on
DetectSettled ==
    /\ detect.pc = "waiting"
    /\ AllSettled(detect)
    /\ \E out \in {DetectOutcome(detect)} :
          detect' = [detect EXCEPT !.pc = IF IsThrow(out) THEN "thrown" ELSE "returned",
                                   !.out = out]
    /\ UNCHANGED exceptDetect

DetectNext ==
    \/ DetectStart
    \/ \E n \in 1..Len(PROBE_TYPES) : ProbeResponse(n)
    \/ \E n \in 1..Len(PROBE_TYPES) : ProbeNetError(n)
    \/ \E n \in 1..Len(PROBE_TYPES) : ProbeTimeout(n)
    \/ \E n \in 1..Len(PROBE_TYPES) : ProbeBody(n)
    \/ DetectSettled

DetectSpec == PureInit /\ [][DetectNext]_vars

(***************************************************************************)
(* check_sse_events: the promise, its timer and the event stream.  events  *)
(* is the history of the call: what the stream and the timer delivered.    *)
(***************************************************************************)
\* The chunks of the stream other than head events that a call is followed
\* through
MaxChunks == 3

\* What a chunk of the stream holds: a head event, another event, or the
\* beginning of a head event whose rest is in the next chunk
Chunks == {"event: head", "event: block", "event: he"}

\* new TextDecoder().decode(chunk).includes('event: head'); in the browser
\* the listener of the head events is called
HasHead(chunk) == chunk = "event: head"

SseStatuses == {200, 404, 500}

\* A filter that lets every error through to reject
IsAbortError_none(err) == FALSE

\* err.name === 'AbortError'
IsAbortError(err) == err = Throw("AbortError")

\* resolve(value) or reject(error): the first call settles the promise
SettleSse(s, kind, value) ==
    [s EXCEPT !.settles = @ + 1,
              !.promise = IF @ = "pending" THEN kind ELSE @,
              !.out = IF s.promise = "pending" THEN value ELSE @]

Happened(s, e, detail) == [s EXCEPT !.events = Append(@, [e |-> e, detail |-> detail])]

\* clearTimeout(timeout)
ClearTimeout(s) == [s EXCEPT !.timer = IF @ = "armed" THEN "cleared" ELSE @]

\* es.close() / controller.abort()
Close(s) == [s EXCEPT !.pc = "closed", !.aborted = TRUE]

exceptSse == <<exceptCallers, detect, post, cli>>

\* check_sse_events is called: the timer is set and the stream requested
SseStart ==
    /\ sse.pc = "idle"
    /\ \E isBrowser \in BOOLEAN :
          sse' = [sse EXCEPT !.pc = "connecting", !.isBrowser = isBrowser, !.timer = "armed"]
    /\ UNCHANGED exceptSse

\* The node answers the request
SseResponse ==
    /\ sse.pc = "connecting"
    /\ ~sse.aborted
    /\ \E status \in SseStatuses :
       \E s \in {Happened(sse, "response", status)} :
          sse' = IF Ok(status) THEN [s EXCEPT !.pc = "streaming"]
                 ELSE IF sse.isBrowser
                 THEN SettleSse(Close(ClearTimeout(s)), "rejected",
                                Throw("Error connecting to event stream."))
                 ELSE SettleSse([ClearTimeout(s) EXCEPT !.pc = "closed"], "rejected",
                                ErrorOf(<<"Failed to connect to event stream: ", status>>))
    /\ UNCHANGED exceptSse

\* A chunk of the stream arrives
SseChunk ==
    /\ sse.pc = "streaming"
    /\ ~sse.aborted
    /\ \E chunk \in Chunks :
       \E s \in {Happened(sse, "chunk", chunk)} :
          /\ ~HasHead(chunk) => Len(sse.events) <= MaxChunks
          /\ sse' = IF HasHead(chunk)
                    THEN SettleSse(Close(ClearTimeout(s)), "fulfilled", Returned("ok"))
                    ELSE s
    /\ UNCHANGED exceptSse

\* The node ends the stream
SseEnd ==
    /\ sse.pc = "streaming"
    /\ ~sse.aborted
    /\ \E s \in {Happened(sse, "end", 0)} :
          sse' = IF sse.isBrowser
                 THEN SettleSse(Close(ClearTimeout(s)), "rejected",
                                Throw("Error connecting to event stream."))
                 ELSE SettleSse([ClearTimeout(s) EXCEPT !.pc = "closed"], "rejected",
                                Throw("Stream ended without a head event."))
    /\ UNCHANGED exceptSse

\* The connection fails, before or after the response
SseError ==
    /\ sse.pc \in {"connecting", "streaming"}
    /\ ~sse.aborted
    /\ \E s \in {Happened(sse, "error", 0)} :
          sse' = IF sse.isBrowser
                 THEN SettleSse(Close(ClearTimeout(s)), "rejected",
                                Throw("Error connecting to event stream."))
                 ELSE SettleSse([ClearTimeout(s) EXCEPT !.pc = "closed"], "rejected",
                                Throw("fetch failed"))
    /\ UNCHANGED exceptSse

\* The timer fires
SseTimeout ==
    /\ sse.timer = "armed"
    /\ \E s \in {Happened(sse, "timer", 0)} :
          sse' = SettleSse([s EXCEPT !.timer = "fired", !.aborted = TRUE,
                                     !.pc = IF sse.isBrowser THEN "closed" ELSE @],
                           "rejected",
                           Throw("Timeout: No head event received within 15 seconds."))
    /\ UNCHANGED exceptSse

\* The fetch or the read that the timer aborted throws its AbortError, which
\* the catch handler gets
SseAborted ==
    /\ sse.pc \in {"connecting", "streaming"}
    /\ sse.aborted
    /\ ~sse.isBrowser
    /\ \E s \in {Happened(sse, "aborted", 0)} :
          sse' = IF IsAbortError(Throw("AbortError")) THEN [s EXCEPT !.pc = "closed"]
                 ELSE SettleSse([ClearTimeout(s) EXCEPT !.pc = "closed"], "rejected",
                                Throw("AbortError"))
    /\ UNCHANGED exceptSse

SseNext ==
    \/ SseStart
    \/ SseResponse
    \/ SseChunk
    \/ SseEnd
    \/ SseError
    \/ SseTimeout
    \/ SseAborted

\* A timer that is set and not cleared fires
SseSpec == PureInit /\ [][SseNext]_vars /\ WF_vars(SseTimeout)

(***************************************************************************)
(* The server: POST /check, in the auto-detecting server and in the server *)
(* that is told the client type.  What detectNodeType and the checker of a *)
(* URL do is the node's matter: every outcome they have is taken.          *)
(***************************************************************************)
\* The longest text of URLs a request is followed with
MaxUrlChars == 3

UrlChars == {"a", "b", ",", " "}

Texts == UNION {[1..len -> UrlChars] : len \in 0..MaxUrlChars}

\* value.replace(/,/g, ' ')
ReplaceCommas(value) == [k \in 1..Len(value) |-> IF value[k] = "," THEN " " ELSE value[k]]

\* value.split(/\s+/): the parts between the runs of blanks, empty ones at
\* the ends included
RECURSIVE SplitBlanks(_, _)
SplitBlanks(value, part) ==
    IF value = <<>> THEN <<part>>
    ELSE IF Head(value) = " " THEN <<part>> \o SplitBlanks(TrimStart(value), <<>>)
    ELSE SplitBlanks(Tail(value), Append(part, Head(value)))

\* urls.replace(/,/g, ' ').split(/\s+/).filter(u => u), and parseUrls of
\* the CLI, which trims the parts as well
parseUrls(value) ==
    SelectSeq([k \in DOMAIN SplitBlanks(ReplaceCommas(value), <<>>) |->
                  Trim(SplitBlanks(ReplaceCommas(value), <<>>)[k])],
              LAMBDA u : u # <<>>)

\* What detectNodeType(url) returns or throws
DetectResults ==
    {Returned("beacon"), Returned("execution"), Returned("colibri"),
     ErrorOf(<<"Unable to detect node type (", "...", ")">>)}

\* The results array of a checker with its final entry, and one without it
ResultsWith(passed) ==
    <<[name |-> "version", passed |-> TRUE], [name |-> "colibri suitable", passed |-> passed]>>

\* What check_function(url) returns or throws
CheckResults ==
    {[t |-> "arr", v |-> ResultsWith(TRUE), e |-> <<>>],
     [t |-> "arr", v |-> ResultsWith(FALSE), e |-> <<>>],
     [t |-> "arr", v |-> <<[name |-> "version", passed |-> TRUE]>>, e |-> <<>>],
     Throw("callback failed")}

\* const CHECK_MAP of the server
CHECK_MAP_server == {"beacon", "execution", "colibri"}

Unsupported(type) == ErrorOf(<<"Unsupported node type detected: ", type>>)

\* What a request holds as urls and clientType: nothing, a text, an array
RequestUrls == {Undef, [t |-> "arr", v |-> <<"a">>, e |-> <<>>]} \cup {Str(text) : text \in Texts}

ClientTypes == {Undef, Str(<<"beacon">>), Str(<<"execution">>)}

\* !value of a request field
Missing(value) == value.t = "undef" \/ (value.t = "str" /\ value.v = <<>>)

\* res.status(status).json(body)
Answer(p, status, body) ==
    [p EXCEPT !.pc = "done", !.answers = Append(@, [status |-> status, body |-> body])]

\* A handler that sends what it has collected
Answer500_partial(p, error) == Answer(p, 500, [t |-> "array", v |-> p.all_results])

\* catch (error) { res.status(500).json({ error: error.message }) }
Answer500(p, error) == Answer(p, 500, [t |-> "error", v |-> error.e])

\* The head of the for loop: the next URL, or res.json(all_results)
NextUrl(p) ==
    IF p.k < Len(p.list)
    THEN [p EXCEPT !.k = @ + 1,
                   !.pc = IF p.auto THEN "detect" ELSE "check",
                   !.type = IF p.auto THEN ""
                            ELSE IF p.clientType = Str(<<"beacon">>) THEN "beacon" ELSE "execution"]
    ELSE Answer(p, 200, [t |-> "array", v |-> p.all_results])

exceptPost == <<exceptCallers, detect, sse, cli>>

\* A request arrives
PostRequest ==
    /\ post.pc = "idle"
    /\ \E auto \in BOOLEAN, urls \in RequestUrls, clientType \in ClientTypes :
       \E p \in {[post EXCEPT !.auto = auto, !.urls = urls, !.clientType = clientType]} :
          /\ auto => clientType = Undef
          /\ post' = IF Missing(urls) \/ (~auto /\ Missing(clientType))
                     THEN Answer(p, 400, [t |-> "error",
                                          v |-> IF auto THEN <<"Missing urls">>
                                                ELSE <<"Missing urls or clientType">>])
                     ELSE IF urls.t # "str"
                     THEN Answer500(p, Throw("TypeError: urls.replace is not a function"))
                     ELSE NextUrl([p EXCEPT !.list = parseUrls(urls.v)])
    /\ UNCHANGED exceptPost

\* detectNodeType settles
PostDetected ==
    /\ post.pc = "detect"
    /\ \E detected \in DetectResults :
          post' = IF IsThrow(detected) THEN Answer500([post EXCEPT !.threw = TRUE], detected)
                  ELSE IF detected.e[1] \notin CHECK_MAP_server
                  THEN Answer500([post EXCEPT !.threw = TRUE], Unsupported(detected.e[1]))
                  ELSE [post EXCEPT !.pc = "check", !.type = detected.e[1]]
    /\ UNCHANGED exceptPost

\* check_function settles
PostChecked ==
    /\ post.pc = "check"
    /\ \E checked \in CheckResults :
          post' = IF IsThrow(checked) THEN Answer500([post EXCEPT !.threw = TRUE], checked)
                  ELSE NextUrl([post EXCEPT !.all_results =
                                   Append(@, [url |-> post.list[post.k], type |-> post.type,
                                              results |-> checked.v])])
    /\ UNCHANGED exceptPost

PostNext ==
    \/ PostRequest
    \/ PostDetected
    \/ PostChecked

PostSpec == PureInit /\ [][PostNext]_vars

(***************************************************************************)
(* The auto-detecting CLI.  ran is the history of the run: of each node    *)
(* that has been dealt with, its type and what its checker returned or     *)
(* what was thrown.                                                        *)
(***************************************************************************)
\* The most arguments a run of the CLI is followed with
MaxArgs == 2

\* The arguments: a URL, a URL with a comma behind it, a blank
ArgTexts == {<<"a">>, <<"b", ",">>, <<" ">>}

ArgLists == UNION {[1..len -> ArgTexts] : len \in 0..MaxArgs}

\* args.join(' ')
RECURSIVE JoinArgs(_)
JoinArgs(args) ==
    IF args = <<>> THEN <<>>
    ELSE IF Len(args) = 1 THEN args[1]
    ELSE args[1] \o <<" ">> \o JoinArgs(Tail(args))

\* const CHECK_MAP of the CLI
CHECK_MAP == {"beacon", "execution"}

\* A test that takes the entry for passed
IsSuitable_any(rs) ==
    \E n \in 1..Len(rs) : rs[n].name = "colibri suitable"

\* suitability_check && suitability_check.passed, of results.find(...)
IsSuitable(rs) ==
    /\ \E n \in 1..Len(rs) : rs[n].name = "colibri suitable"
    /\ rs[CHOOSE n \in 1..Len(rs) :
                  /\ rs[n].name = "colibri suitable"
                  /\ \A m \in 1..(n - 1) : rs[m].name # "colibri suitable"].passed

\* console.log / console.error
Log(c, line) == [c EXCEPT !.printed = Append(@, line)]

\* The lines of the summary
Summary(suitable_nodes) ==
    <<<<"--- Summary ---">>, <<"Suitable nodes that passed all required checks:">>>>
    \o (IF Len(suitable_nodes) > 0
        THEN [n \in 1..Len(suitable_nodes) |->
                 <<"- [", suitable_nodes[n].type, "] ", suitable_nodes[n].url>>]
        ELSE <<<<"None of the provided nodes are suitable.">>>>)
    \o <<<<"------------------------------------------">>>>

\* The head of the for loop: the next node, or the summary
NextNode(c) ==
    IF c.k < Len(c.nodes)
    THEN [c EXCEPT !.k = @ + 1, !.pc = "detect", !.type = ""]
    ELSE [c EXCEPT !.pc = "done", !.printed = @ \o Summary(c.suitable_nodes)]

\* catch (error) { console.error(`Failed to check node ...`) }, and on
Failed(c, error) ==
    NextNode(Log([c EXCEPT !.ran = Append(@, [node |-> c.nodes[c.k], type |-> c.type,
                                                out |-> error])],
                 <<"Failed to check node ", c.nodes[c.k], ": ", error.e>>))

exceptCli == <<exceptCallers, detect, sse, post>>

\* The CLI is started
CliStart ==
    /\ cli.pc = "idle"
    /\ \E args \in ArgLists :
       \E nodes \in {parseUrls(JoinArgs(args))} :
          cli' = IF Len(args) = 0 \/ Len(nodes) = 0
                 THEN [cli EXCEPT !.pc = "exit", !.args = args, !.printed = <<<<"Usage">>>>]
                 ELSE NextNode([cli EXCEPT !.args = args, !.nodes = nodes])
    /\ UNCHANGED exceptCli

\* detectNodeType settles
CliDetected ==
    /\ cli.pc = "detect"
    /\ \E detected \in DetectResults :
          cli' = IF IsThrow(detected) THEN Failed(cli, detected)
                 ELSE IF detected.e[1] \notin CHECK_MAP
                 THEN Failed([cli EXCEPT !.type = detected.e[1]], Unsupported(detected.e[1]))
                 ELSE Log([cli EXCEPT !.pc = "check", !.type = detected.e[1]],
                          <<"### Checking ", detected.e[1], " node ", cli.nodes[cli.k]>>)
    /\ UNCHANGED exceptCli

\* check_function settles
CliChecked ==
    /\ cli.pc = "check"
    /\ \E checked \in CheckResults :
          cli' = IF IsThrow(checked) THEN Failed(cli, checked)
                 ELSE NextNode([cli EXCEPT
                          !.ran = Append(@, [node |-> cli.nodes[cli.k], type |-> cli.type,
                                             out |-> checked]),
                          !.suitable_nodes =
                              IF IsSuitable(checked.v)
                              THEN Append(@, [url |-> cli.nodes[cli.k], type |-> cli.type])
                              ELSE @])
    /\ UNCHANGED exceptCli

CliNext ==
    \/ CliStart
    \/ CliDetected
    \/ CliChecked

CliSpec == PureInit /\ [][CliNext]_vars

(***************************************************************************)
(* Node.exec, one call after the other                                     *)
(***************************************************************************)
MaxRequests == 2

Paths == {"/eth/v1/beacon/headers/head", "/eth/v1/beacon/light_client/updates"}

OK_STATUS == 200

Statuses == {OK_STATUS, 404, 500}

ContentTypes == {"application/octet-stream", "application/json", "text/html"}

\* const timeoutId = setTimeout(() => controller.abort(), 7000): the full
\* checker arms a timer, check_node's exec has none.
TimerAtStart(min) == IF min THEN "none" ELSE "armed"

\* clearTimeout(timeoutId) once fetch has resolved
TimerAfterFetch(t) == IF t = "armed" THEN "cleared" ELSE t

\* Whether exec awaits the body once the response's head is there
ReadsBody(ssz, status, content_type) ==
    \/ status # OK_STATUS
    \/ ~ssz
    \/ content_type \in {"application/octet-stream", "application/json"}

\* What exec returns or throws once the head (and the body, when it reads
\* it) of the response is there
ExecOutcome(path, ssz, status, content_type) ==
    IF status # OK_STATUS THEN Throw("the text of the node's answer")
    ELSE IF ~ssz THEN Returned("json")
    ELSE IF content_type = "application/octet-stream" THEN Returned("bytes")
    ELSE IF content_type = "application/json"
         THEN [t |-> "throw", v |-> <<>>, e |-> <<"SSZ requested, but json delivered for ", path>>]
    ELSE [t |-> "throw", v |-> <<>>,
          e |-> <<"SSZ not supported for ", path, " ( ", content_type, " )">>]

ExecInit == Init /\ variant \in {"beacon", "node"}

\* exec is called: the request is sent
ExecStart ==
    /\ xpc = "idle"
    /\ started < MaxRequests
    /\ \E path \in Paths, ssz \in BOOLEAN :
         xreq' = [path |-> path, ssz |-> ssz, status |-> 0, content_type |-> ""]
    /\ timer' = TimerAtStart(IsMin)
    /\ started' = started + 1
    /\ xpc' = "fetch"
    /\ xout' = Undef
    /\ UNCHANGED <<exceptExec, req_count>>

\* fetch resolves with the status and the headers of the response
ExecHeaders ==
    /\ xpc = "fetch"
    /\ \E status \in Statuses, content_type \in ContentTypes :
         /\ xreq' = [xreq EXCEPT !.status = status, !.content_type = content_type]
         /\ req_count' = IF status = OK_STATUS THEN req_count + 1 ELSE req_count
         /\ IF ReadsBody(xreq.ssz, status, content_type)
            THEN xpc' = "body" /\ xout' = xout
            ELSE xpc' = "idle" /\ xout' = ExecOutcome(xreq.path, xreq.ssz, status, content_type)
    /\ timer' = TimerAfterFetch(timer)
    /\ UNCHANGED <<exceptExec, started>>

\* response.text(), response.json() or response.arrayBuffer() resolves
ExecBody ==
    /\ xpc = "body"
    /\ xout' = ExecOutcome(xreq.path, xreq.ssz, xreq.status, xreq.content_type)
    /\ xpc' = "idle"
    /\ UNCHANGED <<exceptExec, xreq, timer, started, req_count>>

\* The timer fires: controller.abort() rejects the fetch with an AbortError
ExecTimeout ==
    /\ timer = "armed"
    /\ xpc = "fetch"
    /\ timer' = "fired"
    /\ xout' = FetchFailed
    /\ xpc' = "idle"
    /\ UNCHANGED <<exceptExec, xreq, started, req_count>>

\* fetch rejects: the node cannot be reached
ExecNetError ==
    /\ xpc = "fetch"
    /\ timer' = TimerAfterFetch(timer)
    /\ xout' = Throw("fetch failed")
    /\ xpc' = "idle"
    /\ UNCHANGED <<exceptExec, xreq, started, req_count>>

ExecNext ==
    \/ ExecStart
    \/ ExecHeaders
    \/ ExecBody
    \/ ExecTimeout
    \/ ExecNetError

ExecSpec == ExecInit /\ [][ExecNext]_vars

(***************************************************************************)
(* Properties                                                              *)
(***************************************************************************)
\* The check function fn has settled and its result is the last one; the
\* variables of the check still hold what it left.
JustRan(fn) == pc \in {"idle", "done"} /\ ci > 1 /\ checks[ci - 1].fn = fn

Last == results[Len(results)]

\* The root recomputed from a decoded update: the branch walk at
\* generalized index 87 from the committee root.
RecomputedRoot(committee, branch) ==
    The({ merkle_root_from_branch(87, branch, leaf)
          : leaf \in {calculate_next_sync_committee_root(committee, IsMin)} })

\* C1: check_lcu_ssz succeeds exactly when the root recomputed from the
\* decoded committee and the decoded branch at generalized index 87 equals
\* the decoded state root byte for byte, and fails with 'State root
\* mismatch' otherwise; an update that is valid but for one byte of its
\* state root fails.
C1_SszSuccessIffRootsEqual ==
    (JustRan("lcu_ssz") /\ data.t = "buf") =>
        /\ \A u \in {decode_framed(data)} :
             ~IsThrow(u) =>
                \A root \in {RecomputedRoot(u.next_sync_committee, u.next_sync_committee_branch)} :
                   /\ root.t = "buf"
                   /\ Len(u.next_sync_committee_branch) = 6
                   /\ Last.passed <=> root.v = u.state_root.v
                   /\ Last.passed => Last.result = <<"ok">>
                   /\ ~Last.passed => Last.result = <<"State root mismatch">>
        /\ data \in {SszBadRoot, SszBadRootTail} =>
             ~Last.passed /\ Last.result = <<"State root mismatch">>
        /\ data = SszValid => Last.passed

C1_Witness ==
    /\ JustRan("lcu_ssz")
    /\ data = SszBadRootTail
    /\ ~Last.passed
    /\ Last.result = <<"State root mismatch">>

\* The proof of a JSON update does not verify: its recomputed root and its
\* state root are both there and differ.
ProofFails(update) ==
    /\ update.t = "obj"
    /\ Len(update.next_sync_committee_branch) = 6
    /\ \A root \in {RecomputedRoot(update.next_sync_committee,
                                   [k \in 1..6 |-> fromHex(update.next_sync_committee_branch[k])])} :
          root.t = "buf" /\ root.v # fromHex(update.state_root).v

Down(p, n) == [j \in 1..n |-> p - (j - 1)]

UpTo(n) == [j \in 1..n |-> j - 1]

\* C2: when the updates of offsets 0..k-1 verified and the proof of the
\* update of offset k does not, check_lcu_json fails with an error that
\* names k; and whatever made it fail at offset k, no update of an offset
\* greater than k has been requested.
C2_FailsAtFirstBadPeriod ==
    (JustRan("lcu_json") /\ ~Last.passed /\ fetched # <<>>) =>
        /\ verified = UpTo(i)
        /\ fetched = Down(period, i + 1)
        /\ ProofFails(data) =>
             Last.result = <<"Invalid Merkle Proof : State root mismatch (i: ", i, ")">>

C2_Witness ==
    /\ JustRan("lcu_json")
    /\ data = JsonBadBranch
    /\ i = 5
    /\ verified = <<0, 1, 2, 3, 4>>
    /\ Len(fetched) = 6
    /\ Last.result = <<"Invalid Merkle Proof : State root mismatch (i: ", 5, ")">>

LcuJsonOk == JustRan("lcu_json") /\ Last.passed

\* C3 as stated: 'ok' only after the updates of exactly 21 periods
\* p, p-1, ..., p-20 were fetched and verified in that order, p being the
\* period of the head slot (slot div 8192).
C3_Original ==
    LcuJsonOk => fetched = Down(slot.q, 21) /\ verified = UpTo(21)

\* C3 amended: 'ok' only after the updates of exactly N periods
\* p, p-1, ..., p-(N-1) were fetched and verified in that order, N being 21
\* in check_beacon_node and 10 in the minimal check_node, and p the slot
\* wrapped to a signed 32-bit integer and shifted right by 13: the period
\* of the head slot whenever the slot is below 2^31.
C3_OkAfterAllPeriods ==
    LcuJsonOk =>
        \E n \in {IF variant = "node" THEN 10 ELSE 21} :
        \E p \in (-262144)..262143 :
           /\ (p - slot.q) % 524288 = 0
           /\ slot.q < 262144 => p = slot.q
           /\ fetched = Down(p, n)
           /\ verified = UpTo(n)

C3_Witness ==
    /\ LcuJsonOk
    /\ variant = "beacon"
    /\ slot = Slot(1200, 77)
    /\ fetched = Down(1200, 21)

IsRootMismatch(text) ==
    text = <<"State root mismatch">>
    \/ (Len(text) = 3 /\ text[1] = "Invalid Merkle Proof : State root mismatch (i: ")

\* C4: in check_beacon_node a root mismatch of either light-client check
\* is printed as an error, not as a warning, and makes 'colibri suitable'
\* fail.
C4_ProofErrorNeverWarning ==
    variant \in {"beacon", "file"} =>
        \A k \in 1..Len(results) :
            (checks[k].fn \in {"lcu_ssz", "lcu_json"} /\ ~results[k].passed
               /\ IsRootMismatch(results[k].result)) =>
                /\ printed[k].symbol = "error"
                /\ \A j \in 1..Len(results) :
                      checks[j].fn = "suitable" => ~results[j].passed

\* C5: an error raised by a check gives one result for that check, with
\* passed = false and the error's text; it does not end the run: there is
\* one result per check that has run, in order, and the run is done only
\* with a result for every check.
C5_ErrorsBecomeResults ==
    /\ Len(results) = ci - 1
    /\ ci <= Len(checks) + 1
    /\ \A k \in 1..Len(results) : results[k].name = checks[k].name
    /\ pc = "done" <=> Len(results) = Len(checks)
    /\ (Len(results) > 0 /\ pc \in {"idle", "done"}) =>
          /\ IsThrow(raised) => (~Last.passed /\ Last.result = raised.e)
          /\ ~IsThrow(raised) => Last.passed

C5_Witness ==
    /\ pc = "done"
    /\ variant = "beacon"
    /\ ~results[1].passed /\ results[1].result = <<"Request timed out after 7 seconds">>
    /\ ~results[6].passed /\ results[6].result = <<"RangeError: Offset is outside the bounds of the DataView">>
    /\ ~results[7].passed /\ IsRootMismatch(results[7].result)
    /\ Len(results) = 10

\* The names of the required checks among the first k - 1 that failed
FailedRequiredBefore(k) ==
    LET idx == SelectSeq([j \in 1..(k - 1) |-> j],
                         LAMBDA j : ~results[j].passed /\ checks[j].required)
    IN [j \in 1..Len(idx) |-> results[idx[j]].name]

\* The names a 'required checks failed: a, b, c' text lists
NamesListed(text) == [j \in 1..(Len(text) \div 2) |-> text[2 * j]]

\* C6: 'colibri suitable' passes exactly when no required check failed
\* before it in the run; when it fails its text lists the failed required
\* checks, and only them, in the order they ran.
C6_SuitableIffNoRequiredFailed ==
    \A k \in 1..Len(results) :
        checks[k].fn = "suitable" =>
            /\ results[k].passed <=> FailedRequiredBefore(k) = <<>>
            /\ results[k].passed => results[k].result = <<"ok">>
            /\ ~results[k].passed =>
                  /\ results[k].result[1] = "required checks failed: "
                  /\ NamesListed(results[k].result) = FailedRequiredBefore(k)
                  /\ \A j \in 1..((Len(results[k].result) - 1) \div 2) :
                        results[k].result[2 * j + 1] = ", "

C6_Witness ==
    /\ pc = "done"
    /\ variant = "beacon"
    /\ ~results[6].passed
    /\ Last.result = <<"required checks failed: ", "version", ", ", "light_client_update as json">>

\* C7: a container shorter than 8 bytes, or one whose attested-header
\* offset (bytes [0,4)) is greater than its length, makes decoding fail: the
\* check fails and not with the root mismatch of a decoded update.
C7_DecodeValidatesBounds ==
    (JustRan("lcu_ssz") /\ data.t = "buf") =>
        \A c \in {unframe(data)} :
            (Len(c.v) < 8 \/ getUint32(c.v, 0) > Len(c.v)) =>
                /\ IsThrow(decode_ssz(c))
                /\ ~Last.passed
                /\ ~IsRootMismatch(Last.result)

RECURSIVE Steps(_)
\* The shifts that take a generalized index to 1
Steps(g) == IF g <= 1 THEN 0 ELSE 1 + Steps(g \div 2)

\* C8: with a branch of fewer entries than the generalized index needs,
\* merkle_root_from_branch reads no position past the end of the branch and
\* the check fails with a verification error.
C8_ShortBranchNoReadPastEnd ==
    (JustRan("lcu_json") /\ data.t = "obj"
       /\ Len(data.next_sync_committee_branch) < Steps(ELECTRA_NEXT_SYNC_COMMITTEE_GINDEX)) =>
        /\ \A leaf \in {calculate_next_sync_committee_root(data.next_sync_committee, IsMin)} :
           \A reads \in {branch_reads(ELECTRA_NEXT_SYNC_COMMITTEE_GINDEX,
                                      data.next_sync_committee_branch, leaf)} :
              \A k \in 1..Len(reads) : reads[k] < Len(data.next_sync_committee_branch)
        /\ ~Last.passed
        /\ Last.result # <<"TypeError: Cannot read properties of undefined">>

\* Bytes [from, to) of s, to being at most the length
Bytes(s, from, to) == [j \in 1..(IF to > from THEN to - from ELSE 0) |-> s[from + j]]

DecodedFixedPart(c, u) ==
    /\ Len(u.next_sync_committee.pubkeys) = COMMITTEE_SIZE
    /\ \A k \in 1..COMMITTEE_SIZE :
          u.next_sync_committee.pubkeys[k].v = Bytes(c, 4 + (k - 1) * 48, 4 + k * 48)
    /\ u.next_sync_committee.aggregate_pubkey.v
          = Bytes(c, 4 + COMMITTEE_SIZE * 48, 4 + (COMMITTEE_SIZE + 1) * 48)
    /\ Len(u.next_sync_committee_branch) = 6
    /\ \A k \in 1..6 :
          u.next_sync_committee_branch[k].v
             = Bytes(c, 4 + (COMMITTEE_SIZE + 1) * 48 + (k - 1) * 32,
                        4 + (COMMITTEE_SIZE + 1) * 48 + k * 32)

InLcuJson == pc \in {"json_head", "json_fetch"} \/ JustRan("lcu_json")

\* C10: during check_lcu_json at most one request is in flight, and the
\* update of an offset is requested only when the updates of all offsets
\* before it have been fetched and verified.
C10_OneFetchInFlight ==
    InLcuJson =>
        /\ Cardinality(inflight) <= 1
        /\ verified = UpTo(Len(verified))
        /\ Len(fetched) <= Len(verified) + 1
        /\ \A r \in inflight :
              r.path = "/eth/v1/beacon/light_client/updates" =>
                 r.start_period = period - Len(verified)

C10_Witness ==
    /\ pc = "json_fetch"
    /\ i = 3
    /\ verified = <<0, 1, 2>>
    /\ inflight = {UpdateRequest(period - 3, FALSE)}
    /\ Len(fetched) = 4

\* No value occurs twice in the sequence
NoRepeat(seq) == \A a, b \in 1..Len(seq) : a # b => seq[a] # seq[b]

\* C11: within one run of check_lcu_json or check_lcu_ssz the update of a
\* period is requested at most once; when a request fails the check fails
\* with the request's error and no request is outstanding or sent after it.
C11_NoRetry ==
    /\ NoRepeat(fetched)
    /\ pc \in {"idle", "done"} => inflight = {}
    /\ pc \in {"json_head", "ssz_head"} => inflight = {HeadRequest} /\ fetched = <<>>
    /\ pc = "ssz_fetch" => fetched = <<period>>
    /\ ((JustRan("lcu_json") \/ JustRan("lcu_ssz")) /\ raised = FetchFailed) =>
          /\ ~Last.passed
          /\ Last.result = <<"Request timed out after 7 seconds">>
          /\ Len(fetched) <= Len(verified) + 1
          /\ data = Undef \/ Len(verified) > 0

C11_Witness ==
    /\ JustRan("lcu_json")
    /\ raised = FetchFailed
    /\ fetched = <<period, period - 1, period - 2>>
    /\ verified = <<0, 1>>
    /\ inflight = {}

\* C12: a call of exec that has not settled, waiting for the response or
\* for its body, has its timer armed, so that the expiry settles it; and a
\* call the timer ended threw 'Request timed out after 7 seconds'.
C12_EveryFetchBounded ==
    /\ xpc \in {"fetch", "body"} => timer = "armed"
    /\ (timer = "fired" /\ xpc = "idle") => xout = Throw("Request timed out after 7 seconds")

\* C13: once the caller has given up a running check_lcu_json, no update
\* is requested for a period after the one in progress at that time.
C13_CancelBetweenPeriods ==
    (cancelled >= 0 /\ (pc = "json_fetch" \/ JustRan("lcu_json"))) =>
        Len(fetched) <= cancelled + 1

\* The required_checks_failed of a run alone after its first k checks, its
\* check functions that ask the node settling as in outcomes
AloneFailed(v, outcomes, k) ==
    LET idx == SelectSeq([j \in 1..k |-> j],
                         LAMBDA j : ChecksOf(v)[j].required /\ ChecksOf(v)[j].fn # "suitable"
                                    /\ IsThrow(outcomes[j]))
    IN [j \in 1..Len(idx) |-> ChecksOf(v)[idx[j]].name]

\* What check k of a run alone returns or throws
AloneOutcome(v, outcomes, k) ==
    IF ChecksOf(v)[k].fn = "suitable" THEN suitable(AloneFailed(v, outcomes, k - 1))
    ELSE outcomes[k]

\* C14: of two runs that interleave at their waits, each has the results,
\* the failed required checks and the 'colibri suitable' verdict it has when
\* it runs alone with the same answers of its node.
C14_RunsDoNotInterfere ==
    runs # <<>> =>
        \A r \in Runs :
            /\ Len(runs[r].results) = runs[r].ci - 1
            /\ \A k \in 1..Len(runs[r].results) :
                  runs[r].results[k]
                     = ResultOf(ChecksOf(runs[r].variant)[k],
                                AloneOutcome(runs[r].variant, runs[r].outcomes, k))
            /\ failed_of[r] = AloneFailed(runs[r].variant, runs[r].outcomes, Len(runs[r].outcomes))

C14_Witness ==
    /\ runs # <<>>
    /\ runs[1].variant = "beacon" /\ runs[2].variant = "beacon"
    /\ runs[1].ci = 3
    /\ ~runs[1].results[1].passed
    /\ failed_of[1] = <<"version">>
    /\ runs[2].ci = 11
    /\ runs[2].results[10].passed
    /\ failed_of[2] = <<>>

IsWalk87(c) ==
    /\ c.fn = "merkle_root_from_branch"
    /\ c.arg.gindex = 87
    /\ Len(c.arg.branch) = 6

\* The positions (0 the leaf, k the k-th branch entry) where two calls differ
Differing(c, d) ==
    {k \in 0..6 : IF k = 0 THEN c.arg.leaf # d.arg.leaf ELSE c.arg.branch[k] # d.arg.branch[k]}

\* C16: for index 87 and a 6-entry branch, a change of one byte of the leaf
\* or of one of the six branch entries, the rest kept, changes the root that
\* merkle_root_from_branch returns.
C16_AnyChangeChangesRoot ==
    \A a \in 1..Len(calls) :
        IsWalk87(calls[a]) =>
            \A c \in {calls[a]} :
                /\ c.out.t = "buf"
                /\ \A pos \in {1, 32} :
                      merkle_root_from_branch(87, c.arg.branch, Buf(FlipAt(c.arg.leaf.v, pos))).v
                         # c.out.v
                /\ \A k \in 1..6 : \A pos \in {1, 32} :
                      merkle_root_from_branch(
                          87, [c.arg.branch EXCEPT ![k] = Buf(FlipAt(c.arg.branch[k].v, pos))],
                          c.arg.leaf).v # c.out.v
                /\ \A b \in 1..Len(calls) :
                      (IsWalk87(calls[b]) /\ Cardinality(Differing(c, calls[b])) = 1) =>
                          calls[b].out.v # c.out.v

C16_Witness ==
    /\ Len(calls) = 2
    /\ IsWalk87(calls[1]) /\ IsWalk87(calls[2])
    /\ Differing(calls[1], calls[2]) = {4}
    /\ calls[1].out.t = "buf" /\ calls[2].out.t = "buf"
    /\ calls[1].out # calls[2].out

\* C17: the results hold one result per check that has run, in the order
\* of the definitions and with the check's name, all of them once the run
\* is over; the callback has been called once per result, with that
\* result, before the next check is started.
C17_OneResultAndCallbackPerCheck ==
    /\ Len(results) <= Len(checks)
    /\ Len(printed) = Len(results)
    /\ \A k \in 1..Len(results) :
          /\ results[k].name = checks[k].name
          /\ printed[k].name = results[k].name
          /\ printed[k].result = results[k].result
          /\ printed[k].symbol = "pass" <=> results[k].passed
    /\ pc \notin {"idle", "done"} => Len(printed) = ci - 1
    /\ pc = "done" => Len(results) = Len(checks)

C17_Witness ==
    /\ pc = "done"
    /\ variant = "execution"
    /\ Len(results) = 9
    /\ Len(printed) = 9
    /\ printed[1].symbol = "error"
    /\ printed[2].symbol = "warning"
    /\ printed[9].name = "colibri suitable"

\* C18: merkle_root_from_branch returns the leaf for index 1 and otherwise
\* hashes its way up from the leaf, the branch entry on the left when the
\* index is odd and on the right when it is even, one entry per halving of
\* the index: for 87 the steps are odd, odd, odd, even, odd, even over
\* branch[0..5], for 5 odd, even over branch[0..1].
C18_WalkOrder ==
    \A a \in 1..Len(calls) :
        calls[a].fn = "merkle_root_from_branch" =>
            \A c \in {calls[a]} : \A b \in {c.arg.branch} :
                /\ c.arg.gindex = 1 => c.out = c.arg.leaf
                /\ c.arg.gindex = 5 =>
                      \E r1 \in {hash(<<b[1], c.arg.leaf>>)} :
                      \E r2 \in {hash(<<r1, b[2]>>)} : c.out = r2
                /\ c.arg.gindex = 87 =>
                      \E r1 \in {hash(<<b[1], c.arg.leaf>>)} :
                      \E r2 \in {hash(<<b[2], r1>>)} :
                      \E r3 \in {hash(<<b[3], r2>>)} :
                      \E r4 \in {hash(<<r3, b[4]>>)} :
                      \E r5 \in {hash(<<b[5], r4>>)} :
                      \E r6 \in {hash(<<r5, b[6]>>)} : c.out = r6 /\ r6.t = "buf"

C18_Witness ==
    /\ Len(calls) = 2
    /\ IsWalk87(calls[1])
    /\ calls[1].min
    /\ calls[1].out.t = "buf"
    /\ calls[2].fn = "merkle_root_from_branch"
    /\ calls[2].arg.gindex = 5
    /\ ~calls[2].min

\* C19: for n >= 1 roots, one round of hash_roots, of the full and of the
\* minimal checker, returns ceil(n/2) roots, entry i being
\* hash(roots[2i], roots[2i+1]) with 32 zero bytes for a missing
\* roots[2i+1]; no length makes it fail.
C19_HashRootsRound ==
    \A a \in 1..Len(calls) :
        calls[a].fn = "hash_roots" =>
            \A c \in {calls[a]} : \A n \in {Len(c.arg)} :
                /\ c.out.t = "arr"
                /\ Len(c.out.v) = (n + 1) \div 2
                /\ \A k \in 1..Len(c.out.v) :
                      c.out.v[k] = hash(<<c.arg[2 * k - 1],
                                          IF 2 * k <= n THEN c.arg[2 * k] ELSE Buf(Zeros(32))>>)

RECURSIVE CeilLog2(_)
\* The least r with 2^r >= n
CeilLog2(n) == IF n <= 1 THEN 0 ELSE 1 + CeilLog2((n + 1) \div 2)

\* C20: for n >= 1 keys the reduction loop of
\* calculate_next_sync_committee_root, of the full and of the minimal
\* checker, ends with one root after ceil(log2(n)) rounds, the length
\* smaller after each round; for the committee's keys no round starts with
\* an odd length.
C20_ReductionTerminates ==
    \A a \in 1..Len(calls) :
        calls[a].fn = "calculate_next_sync_committee_root" =>
            \A c \in {calls[a]} : \A n \in {Len(c.arg.pubkeys)} :
                /\ c.out.t = "buf"
                /\ c.lengths[1] = n
                /\ c.lengths[Len(c.lengths)] = 1
                /\ Len(c.lengths) - 1 = CeilLog2(n)
                /\ \A k \in 1..(Len(c.lengths) - 1) : c.lengths[k + 1] < c.lengths[k]
                /\ n = COMMITTEE_SIZE =>
                      \A k \in 1..(Len(c.lengths) - 1) : c.lengths[k] % 2 = 0

\* The hash of a key followed by 16 zero bytes
PaddedKeyHash(key) == Buf(Digest(key.v \o Zeros(16)))

RECURSIVE BinaryReduction(_)
\* The root of the binary tree over the roots, taken in order, a missing
\* right sibling being 32 zero bytes
BinaryReduction(roots) ==
    IF Len(roots) = 1 THEN roots[1]
    ELSE The({ BinaryReduction(up)
               : up \in {[k \in 1..((Len(roots) + 1) \div 2) |->
                            hash(<<roots[2 * k - 1],
                                   IF 2 * k <= Len(roots) THEN roots[2 * k]
                                   ELSE Buf(Zeros(32))>>)]} })

\* The keys with the first two exchanged
SwapFirstTwo(keys) == [k \in 1..Len(keys) |-> IF k = 1 THEN keys[2] ELSE IF k = 2 THEN keys[1] ELSE keys[k]]

\* C21: calculate_next_sync_committee_root returns
\* hash(R, hash_key(aggregate_pubkey)), R being the binary reduction of the
\* hash_key of the pubkeys in committee order and hash_key(v) the hash of v
\* followed by 16 zero bytes; the committee's keys always give a root, and
\* with two different keys exchanged the root is another.
C21_CommitteeRoot ==
    \A a \in 1..Len(calls) :
        calls[a].fn = "calculate_next_sync_committee_root" =>
            \A c \in {calls[a]} : \A keys \in {c.arg.pubkeys} :
                /\ Len(keys) = COMMITTEE_SIZE => c.out.t = "buf"
                /\ c.out.t = "buf" =>
                      /\ \E R \in {BinaryReduction([k \in 1..Len(keys) |-> PaddedKeyHash(keys[k])])} :
                            c.out = hash(<<R, PaddedKeyHash(c.arg.aggregate_pubkey)>>)
                      /\ (Len(keys) >= 2 /\ keys[1] # keys[2]) =>
                            calculate_next_sync_committee_root(
                                [c.arg EXCEPT !.pubkeys = SwapFirstTwo(keys)], c.min) # c.out

C21_Witness ==
    /\ Len(calls) = 2
    /\ calls[1].fn = "calculate_next_sync_committee_root"
    /\ Len(calls[1].arg.pubkeys) = COMMITTEE_SIZE
    /\ calls[1].out.t = "buf"
    /\ calls[2].fn = "calculate_next_sync_committee_root"
    /\ calls[2].min /\ ~calls[1].min
    /\ calls[2].arg = calls[1].arg
    /\ calls[2].out = calls[1].out

\* The result of check_lcu_ssz is that of decoding and verifying container c
VerdictOf(c) ==
    \A u \in {decode_ssz(Buf(c))} :
    \A r \in {IF IsThrow(u) THEN u ELSE verify_update(u, IsMin)} :
        Last.result = r.e /\ (Last.passed <=> ~IsThrow(r))

\* C22 as stated: with L the 32-bit value in bytes [0,4) of the payload, the
\* container handed to the decoder has length L and is bytes [12, 12+L) of
\* the payload.
C22_Original ==
    (JustRan("lcu_ssz") /\ data.t = "buf" /\ raised # FetchFailed) =>
        \A L \in {getUint32(data.v, 0)} : \A c \in {unframe(data)} :
            /\ Len(c.v) = L
            /\ c.v = Bytes(data.v, 12, 12 + L)

\* C22 amended: the container handed to the decoder is bytes
\* [12, min(12+L, length)) of the payload; it has length L when the payload
\* has at least 12+L bytes and is shorter otherwise.
C22_FrameStripped ==
    (JustRan("lcu_ssz") /\ data.t = "buf" /\ raised # FetchFailed) =>
        \A L \in {getUint32(data.v, 0)} : \A c \in {unframe(data)} :
            /\ L >= 0
            /\ c.v = Bytes(data.v, 12, Min(12 + L, Len(data.v)))
            /\ Len(data.v) >= 12 + L => Len(c.v) = L
            /\ Len(data.v) < 12 + L => Len(c.v) < L
            /\ VerdictOf(Bytes(data.v, 12, Min(12 + L, Len(data.v))))

C22_Witness ==
    /\ JustRan("lcu_ssz")
    /\ data = SszFrameLong
    /\ Len(unframe(data).v) = getUint32(data.v, 0) - 8
    /\ Last.passed

\* C23 as stated: merkle_root_from_branch consumes ceil(log2(g)) branch
\* entries for index g, which is 6 for index 87.
C23_Original ==
    \A a \in 1..Len(calls) :
        calls[a].fn = "merkle_root_from_branch" =>
            /\ Len(calls[a].reads) = CeilLog2(calls[a].arg.gindex)
            /\ calls[a].arg.gindex = 87 => Len(calls[a].reads) = 6

\* C23 amended: merkle_root_from_branch consumes floor(log2(g)) branch
\* entries for index g, branch[0] up to branch[floor(log2(g)) - 1], one per
\* halving of the index down to 1; for index 87 these are 6, the number of
\* 32-byte entries the decoder reads.
C23_EntriesConsumed ==
    \A a \in 1..Len(calls) :
        calls[a].fn = "merkle_root_from_branch" =>
            \A c \in {calls[a]} :
                /\ c.out.t = "buf"
                /\ Len(c.reads) = Steps(c.arg.gindex)
                /\ \A k \in 1..Len(c.reads) : c.reads[k] = k - 1
                /\ c.arg.gindex = 87 =>
                      /\ Len(c.reads) = 6
                      /\ Len(c.reads) = BRANCH_BYTES \div 32
                      /\ Len(c.reads) = Len(decode_ssz(Buf(ValidContainer)).next_sync_committee_branch)

C23_Witness ==
    /\ Len(calls) = 2
    /\ IsWalk87(calls[1])
    /\ calls[1].reads = <<0, 1, 2, 3, 4, 5>>
    /\ calls[2].fn = "merkle_root_from_branch"
    /\ calls[2].arg.gindex = 5
    /\ calls[2].reads = <<0, 1>>

\* C24: for one update, given in the binary and in the JSON form, the
\* verification step of check_lcu_ssz passes exactly when that of a period
\* of check_lcu_json passes, which is when the branch and the state root are
\* the ones that belong to the committee; else both fail with their root
\* mismatch.
C24_PathsAgree ==
    \A a \in 1..Len(calls) :
        calls[a].fn = "verify" =>
            \A c \in {calls[a]} :
                /\ c.out.ssz = Returned("ok") <=> c.out.json = Returned("ok")
                /\ c.out.ssz = Returned("ok")
                      <=> (c.arg.branch = Branch /\ c.arg.state_root = TrueStateRoot)
                /\ c.out.ssz # Returned("ok") =>
                      /\ c.out.ssz = Throw("State root mismatch")
                      /\ c.out.json.t = "throw"
                      /\ c.out.json.e = <<"Invalid Merkle Proof : State root mismatch (i: ", 0, ")">>

C24_Witness ==
    /\ Len(calls) = 2
    /\ calls[1].fn = "verify"
    /\ calls[1].arg = [branch |-> Branch, state_root |-> TrueStateRoot]
    /\ calls[1].out = [ssz |-> Returned("ok"), json |-> Returned("ok")]
    /\ calls[2].fn = "verify"
    /\ calls[2].arg.state_root = FlipAt(TrueStateRoot, 32)
    /\ calls[2].out.ssz.t = "throw"
    /\ calls[2].out.json.t = "throw"

\* The probes of the call, and the probes that have settled
ProbesOf(d) == 1..Len(d.probes)

ProbesSettled == \A n \in ProbesOf(detect) : detect.probes[n].pc \in {"fulfilled", "rejected"}

ProbesIdle == \A n \in ProbesOf(detect) : detect.probes[n].pc = "idle"

\* C25 as stated: detectNodeType returns or throws only after all three
\* probes have settled.
C25_Original ==
    detect.pc \in {"returned", "thrown"} => ProbesSettled

\* C25: for a URL that normalizeUrl accepts, detectNodeType starts the three
\* probes together and returns or throws only after all three have settled;
\* for a missing, non-string, empty or blank URL it throws before any probe
\* is started.  A probe is aborted by its own timer only, never by another
\* probe's success.
C25_ProbesTogether ==
    /\ ProbesIdle \/ \A n \in ProbesOf(detect) : detect.probes[n].pc # "idle"
    /\ detect.pc = "returned" => ProbesSettled
    /\ detect.pc = "thrown" =>
          \/ ProbesSettled
          \/ ProbesIdle /\ detect.out \in {Throw("Invalid URL provided"), Throw("Empty URL provided")}
    /\ ProbesIdle <=> detect.pc \in {"idle", "thrown"} /\ detect.order = <<>>
    /\ \A n \in ProbesOf(detect) :
          detect.probes[n].reason = Throw("This operation was aborted")
             => detect.probes[n].timer = "fired"

\* The beacon probe succeeded first, the execution probe ran on to its own
\* timeout, and detectNodeType returned after the last probe had settled.
C25_Witness ==
    /\ detect.pc = "returned"
    /\ Len(detect.order) = 3
    /\ detect.order[1] = 1
    /\ detect.probes[1].pc = "fulfilled"
    /\ detect.probes[2].timer = "fired"
    /\ detect.probes[3].pc = "rejected"

\* The first probe of the array that succeeded
FirstSucceeded(d) ==
    CHOOSE n \in ProbesOf(d) :
        /\ d.probes[n].pc = "fulfilled"
        /\ \A m \in 1..(n - 1) : d.probes[m].pc = "rejected"

\* C27: once the probes of a call have run, what detectNodeType returns is
\* fixed by which probes succeeded, in whatever order they completed: the
\* first of beacon, execution, colibri whose probe succeeded; when none
\* succeeded it throws one error whose message holds, for each of the three
\* probes, its type and the text of its failure reason.
C27_OrderIndependent ==
    detect.pc \in {"returned", "thrown"} /\ detect.order # <<>> =>
        /\ detect.pc = "returned" <=> \E n \in ProbesOf(detect) : detect.probes[n].pc = "fulfilled"
        /\ detect.pc = "returned" =>
              detect.out = Returned(PROBE_TYPES[FirstSucceeded(detect)])
        /\ detect.pc = "thrown" =>
              /\ detect.out.t = "throw"
              /\ detect.out.e =
                    <<"Unable to detect node type (",
                      <<"beacon", ": ", describeError(detect.probes[1].reason)>>, ", ",
                      <<"execution", ": ", describeError(detect.probes[2].reason)>>, ", ",
                      <<"colibri", ": ", describeError(detect.probes[3].reason)>>, ")">>
              /\ \A n \in ProbesOf(detect) :
                    /\ detect.probes[n].reason.t = "throw"
                    /\ describeError(detect.probes[n].reason) = detect.probes[n].reason.e

\* The colibri probe completed first and succeeded, the beacon probe
\* succeeded last: the type is beacon.
C27_Witness ==
    /\ detect.pc = "returned"
    /\ detect.order = <<3, 2, 1>>
    /\ detect.probes[3].pc = "fulfilled"
    /\ detect.probes[2].pc = "rejected"
    /\ detect.probes[1].pc = "fulfilled"
    /\ detect.out = Returned("beacon")

\* C26: compare_buffers, in Node and in the browser, reports two byte
\* buffers as equal (returns 0) exactly when they have the same length and
\* the same byte at every position; buffers of different lengths are
\* reported as not equal; it returns a number and does not throw.
C26_CompareBuffers ==
    \A c \in 1..Len(calls) :
        (/\ calls[c].fn = "compare_buffers"
         /\ calls[c].arg.a.t = "buf"
         /\ calls[c].arg.b.t = "buf") =>
            \A a \in {calls[c].arg.a.v}, b \in {calls[c].arg.b.v}, out \in {calls[c].out} :
                /\ out.t = "num"
                /\ out.v[1] \in {-1, 0, 1}
                /\ out.v[1] = 0 <=> (Len(a) = Len(b) /\ \A k \in 1..Len(a) : a[k].b = b[k].b)
                /\ Len(a) # Len(b) => out.v[1] # 0

\* A buffer and a longer one that begins with it were compared in the
\* browser, and two equal buffers in Node.
C26_Witness ==
    /\ Len(calls) = 2
    /\ calls[1].fn = "compare_buffers"
    /\ calls[1].arg = [isBrowser |-> TRUE, a |-> Buf(<<Byte(0)>>), b |-> Buf(<<Byte(0), Byte(0)>>)]
    /\ calls[1].out.v = <<1>>
    /\ calls[2].arg = [isBrowser |-> FALSE, a |-> Buf(<<Byte(0), Byte(1)>>), b |-> Buf(<<Byte(0), Byte(1)>>)]
    /\ calls[2].out.v = <<0>>

\* Whether what happened decides a call of check_sse_events: a head event,
\* a refused or failed connection, the end of the stream, the timer
Decides(ev) ==
    \/ ev.e \in {"end", "error", "timer"}
    \/ ev.e = "chunk" /\ ev.detail = "event: head"
    \/ ev.e = "response" /\ (ev.detail < 200 \/ ev.detail > 299)

\* The first thing that happened and decides
FirstDeciding(events) ==
    events[CHOOSE k \in 1..Len(events) :
              /\ Decides(events[k])
              /\ \A l \in 1..(k - 1) : ~Decides(events[l])]

SseSettled == sse.promise # "pending"

\* C28: check_sse_events calls resolve or reject exactly once, and until
\* then its timer is set, so that it always settles.  What happened first
\* decides: a head event resolves 'ok'; a refused or failed connection, the
\* end of the stream and the timer reject; nothing that happens later
\* changes the outcome.
C28_SettlesOnce ==
    /\ [](/\ sse.settles <= 1
          /\ SseSettled <=> sse.settles = 1
          /\ (sse.pc # "idle" /\ ~SseSettled) => sse.timer = "armed"
          /\ SseSettled <=> \E k \in 1..Len(sse.events) : Decides(sse.events[k])
          /\ SseSettled =>
                \A ev \in {FirstDeciding(sse.events)} :
                    /\ sse.promise = "fulfilled" <=> ev.e = "chunk"
                    /\ sse.promise = "fulfilled" => sse.out = Returned("ok")
                    /\ sse.promise = "rejected" => sse.out.t = "throw"
                    /\ ev.e = "timer" <=>
                          sse.out = Throw("Timeout: No head event received within 15 seconds."))
    /\ (sse.pc # "idle") ~> SseSettled

\* The timer fired while the stream was open, the promise was rejected, and
\* the abort it caused came to the catch handler without changing that.
C28_Witness ==
    /\ sse.promise = "rejected"
    /\ ~sse.isBrowser
    /\ sse.settles = 1
    /\ Len(sse.events) = 4
    /\ sse.events[2].e = "chunk"
    /\ sse.events[3].e = "timer"
    /\ sse.events[4].e = "aborted"
    /\ sse.out = Throw("Timeout: No head event received within 15 seconds.")

\* The request has been answered, and a request is answered at most once
PostAnswered ==
    /\ Len(post.answers) <= 1
    /\ post.pc = "done" <=> Len(post.answers) = 1

\* !urls
UrlsMissing == post.urls.t = "undef" \/ post.urls = Str(<<>>)

ProducedSuitable(run) ==
    /\ run.out.t = "arr"
    /\ \E n \in 1..Len(run.out.v) :
          run.out.v[n] = [name |-> "colibri suitable", passed |-> TRUE]

\* The lines of the summary that list a node
Listed == SelectSeq(cli.printed, LAMBDA line : line[1] = "- [")

\* C30: the CLI deals with the nodes one at a time in input order, going on
\* to the next node when detection or checking throws; the summary lists
\* exactly the nodes whose run produced a passed 'colibri suitable' result,
\* in input order, and never a node detected as colibri, which has no entry
\* in CHECK_MAP.
C30_SummaryListsSuitable ==
    /\ cli.pc \in {"detect", "check"} =>
          /\ cli.k \in 1..Len(cli.nodes)
          /\ Len(cli.ran) = cli.k - 1
    /\ \A n \in 1..Len(cli.ran) : cli.ran[n].node = cli.nodes[n]
    /\ cli.pc # "done" => Listed = <<>>
    /\ cli.pc = "done" =>
          /\ Len(cli.ran) = Len(cli.nodes)
          /\ \A suitable_runs \in {SelectSeq(cli.ran, ProducedSuitable)} :
                /\ Len(Listed) = Len(suitable_runs)
                /\ \A n \in 1..Len(Listed) :
                      /\ Listed[n] = <<"- [", suitable_runs[n].type, "] ", suitable_runs[n].node>>
                      /\ Listed[n][2] \in {"beacon", "execution"}
          /\ \A n \in 1..Len(cli.ran) :
                cli.ran[n].type = "colibri" => cli.ran[n].out.t = "throw"

\* The first node was detected as colibri, the second passed: the run went
\* on after the first and the summary lists the second alone.
C30_Witness ==
    /\ cli.pc = "done"
    /\ cli.nodes = << <<"a">>, <<"b">> >>
    /\ cli.ran[1].type = "colibri"
    /\ cli.ran[2].out.t = "arr"
    /\ Listed = << <<"- [", "beacon", "] ", <<"b">>>> >>

====
